---- MODULE Spec2Model ----
\* A model of the chonky-task-manager MCP server: the task tools (create-project,
\* add-task, batch-add-tasks, update-task, manage-dependencies, import-export,
\* import-folder) over the session-partitioned memory store, the store itself,
\* and the SSE session derivation of the protocol server.
\*
\* Strings whose content decides behaviour (project names, notes, successCriteria,
\* session ids, namespaces) are sequences of one-character strings.  Titles,
\* descriptions and details are opaque payload the tools copy; only the title is
\* kept, as the token that tells where a task came from.
EXTENDS Integers, Sequences, FiniteSets, TLC

VARIABLES
    projects,       \* session namespace "chonky-task-manager": projectKey -> ProjectData
    activeProject,  \* key tasks.activeproject: <<>> (absent) or <<name>>
    files,          \* the .json files written by export: path -> snapshot
    clock,          \* the wall clock read by new Date()
    last,           \* the ToolExecutionResult of the last tool call
    issued,         \* per project key, the main-task ids handed out so far
    race,           \* the add-task calls suspended at an await, and those returned
    registry,       \* ToolRegistry.tools (name -> tool) and the last call on it
    adapter,        \* the editor adapter: the wrappers registered and the last invoke
    stores,         \* MemoryStoreManager.stores: isolated namespace -> key -> entry
    storeLast,      \* the last MemoryStoreTool call of the store specification
    conns,          \* startSSE's activeTransports in insertion order, and the ids used
    currentSessionId, \* ChonkyTasksMcpServer.currentSessionId
    callLog,        \* the last POST: connection it reached, session id used, values shown
    roots           \* clientSupportsRoots, the pending timers, the roots/list requests

vars == <<projects, activeProject, files, clock, last, issued, race, registry, adapter,
          stores, storeLast, conns, currentSessionId, callLog, roots>>

taskVars ==
    <<projects, activeProject, files, clock, last, issued, race, registry, adapter>>
storeVars == <<stores, storeLast>>
sseVars == <<conns, currentSessionId, callLog, roots>>

-----------------------------------------------------------------------------
\* Bounds of the model.

MaxTasks == 3        \* main-task ids handed out per project (nextId <= MaxTasks + 1)
MaxSubtasks == 2     \* subtasks per main task
MaxClock == 2        \* the clock runs from 0 to MaxClock
MaxNotes == 1        \* note entries per task or subtask

-----------------------------------------------------------------------------
\* Strings as sequences of characters.

UpperChars == <<"A","B","C","D","E","F","G","H","I","J","K","L","M",
                "N","O","P","Q","R","S","T","U","V","W","X","Y","Z">>
LowerChars == <<"a","b","c","d","e","f","g","h","i","j","k","l","m",
                "n","o","p","q","r","s","t","u","v","w","x","y","z">>
Digits == {"0","1","2","3","4","5","6","7","8","9"}

Range(s) == {s[i] : i \in DOMAIN s}

LowerChar(c) ==
    IF \E i \in DOMAIN UpperChars : UpperChars[i] = c
    THEN LowerChars[CHOOSE i \in DOMAIN UpperChars : UpperChars[i] = c]
    ELSE c

\* String.prototype.toLowerCase
ToLowerCase(s) == [i \in DOMAIN s |-> LowerChar(s[i])]

\* String.prototype.includes
Includes(s, sub) ==
    \E i \in 0..(Len(s) - Len(sub)) :
        \A j \in 1..Len(sub) : s[i + j] = sub[j]

WhiteSpace == {" ", "\t", "\n"}

\* s.trim().length === 0
IsBlank(s) == \A i \in DOMAIN s : s[i] \in WhiteSpace

\* The value `undefined` of an optional string field.
Undefined == <<"undefined">>

-----------------------------------------------------------------------------
\* Key normalization.

KeyChars == Range(LowerChars) \cup Digits \cup {".", "_", "-"}

RECURSIVE Filter(_, _)
Filter(s, keep) ==
    IF s = <<>> THEN <<>>
    ELSE IF Head(s) \in keep THEN <<Head(s)>> \o Filter(Tail(s), keep)
    ELSE Filter(Tail(s), keep)

\* .replace(/\.+/g, '.')
RECURSIVE CollapseDots(_)
CollapseDots(s) ==
    IF Len(s) < 2 THEN s
    ELSE IF s[1] = "." /\ s[2] = "." THEN CollapseDots(Tail(s))
    ELSE <<s[1]>> \o CollapseDots(Tail(s))

\* .replace(/^\.|\.$/, ''): without the g flag only the first match is removed,
\* the leading dot when there is one, otherwise the trailing dot.
TrimOneDot(s) ==
    IF s # <<>> /\ s[1] = "." THEN Tail(s)
    ELSE IF s # <<>> /\ s[Len(s)] = "." THEN SubSeq(s, 1, Len(s) - 1)
    ELSE s

normalizeProjectKey(projectName) ==
    TrimOneDot(CollapseDots(Filter(ToLowerCase(projectName), KeyChars)))

\* validateProjectName: non-empty, at most 30 characters, no space, ^[a-zA-Z0-9_-]+$
NameChars == Range(LowerChars) \cup Range(UpperChars) \cup Digits \cup {"_", "-"}

validateProjectName(name) ==
    IF name = <<>> \/ IsBlank(name) THEN "empty"
    ELSE IF Len(name) > 30 THEN "too-long"
    ELSE IF " " \in Range(name) THEN "spaces"
    ELSE IF ~(Range(name) \subseteq NameChars) THEN "charset"
    ELSE "valid"

-----------------------------------------------------------------------------
\* The task domain model.

FINAL_STATUSES == {"done", "cancelled"}
VALID_STATUSES == {"pending", "in-progress", "done", "blocked", "deferred",
                   "cancelled", "review"}

\* findTaskById: the first task of the list with that id; index 0 when there is none.
FindIndex(tasks, id) ==
    IF \E i \in DOMAIN tasks : tasks[i].id = id
    THEN CHOOSE i \in DOMAIN tasks :
            /\ tasks[i].id = id
            /\ \A j \in DOMAIN tasks : tasks[j].id = id => i <= j
    ELSE 0

findTaskById(project, taskId) == FindIndex(project.tasks, taskId)

\* parseTaskId: "n" or "n.m", given as <<n>> or <<n, m>>; 0 stands for no subtask id.
parseTaskId(taskId) ==
    [parentId |-> taskId[1],
     isSubtask |-> Len(taskId) > 1,
     subtaskId |-> IF Len(taskId) > 1 THEN taskId[2] ELSE 0]

Max(S) == CHOOSE x \in S : \A y \in S : y <= x

\* A subtask id that does not look at the subtasks already attached
getNextSubtaskId_Constant(parentTask) == 1

\* getNextSubtaskId, and the same expression inlined in add-task
getNextSubtaskId(parentTask) ==
    IF Len(parentTask.subtasks) = 0 THEN 1
    ELSE Max({parentTask.subtasks[i].id : i \in DOMAIN parentTask.subtasks}) + 1

\* hasCircularDependency: depth-first search with a visited set and a recursion
\* stack, both updated in place by the code and so threaded through here.
RECURSIVE hasCircularDependency(_, _, _, _), VisitDependencies(_, _, _, _, _)

\* The search with the visited test placed before the recursion-stack test
hasCircularDependency_VisitedFirst(tasks, taskId, visited, recursionStack) ==
    IF taskId \in visited
    THEN [found |-> FALSE, visited |-> visited, stack |-> recursionStack]
    ELSE IF taskId \in recursionStack
    THEN [found |-> TRUE, visited |-> visited, stack |-> recursionStack]
    ELSE LET v1 == visited \cup {taskId}
             s1 == recursionStack \cup {taskId}
             i == FindIndex(tasks, taskId)
             r == IF i = 0
                  THEN [found |-> FALSE, visited |-> v1, stack |-> s1]
                  ELSE VisitDependencies(tasks, tasks[i].dependencies, 1, v1, s1)
         IN IF r.found THEN r
            ELSE [found |-> FALSE, visited |-> r.visited, stack |-> r.stack \ {taskId}]

hasCircularDependency(tasks, taskId, visited, recursionStack) ==
    IF taskId \in recursionStack
    THEN [found |-> TRUE, visited |-> visited, stack |-> recursionStack]
    ELSE IF taskId \in visited
    THEN [found |-> FALSE, visited |-> visited, stack |-> recursionStack]
    ELSE LET v1 == visited \cup {taskId}
             s1 == recursionStack \cup {taskId}
             i == FindIndex(tasks, taskId)
             r == IF i = 0
                  THEN [found |-> FALSE, visited |-> v1, stack |-> s1]
                  ELSE VisitDependencies(tasks, tasks[i].dependencies, 1, v1, s1)
         IN IF r.found THEN r
            ELSE [found |-> FALSE, visited |-> r.visited, stack |-> r.stack \ {taskId}]

VisitDependencies(tasks, deps, k, visited, recursionStack) ==
    IF k > Len(deps)
    THEN [found |-> FALSE, visited |-> visited, stack |-> recursionStack]
    ELSE LET r == hasCircularDependency(tasks, deps[k], visited, recursionStack)
         IN IF r.found THEN r
            ELSE VisitDependencies(tasks, deps, k + 1, r.visited, r.stack)

\* The errors one task contributes to validateDependencies / validateTaskDependencies:
\* one "missing" error per unresolved dependency id, one "circular" error per
\* resolved dependency id when the search from taskId finds a cycle.
RECURSIVE DependencyErrors(_, _, _, _)
DependencyErrors(tasks, taskId, deps, k) ==
    IF k > Len(deps) THEN <<>>
    ELSE LET here ==
               IF FindIndex(tasks, deps[k]) = 0
               THEN <<[kind |-> "missing", task |-> taskId, dep |-> deps[k]]>>
               ELSE IF hasCircularDependency(tasks, taskId, {}, {}).found
               THEN <<[kind |-> "circular", task |-> taskId, dep |-> deps[k]]>>
               ELSE <<>>
         IN here \o DependencyErrors(tasks, taskId, deps, k + 1)

RECURSIVE ValidateFrom(_, _)
ValidateFrom(tasks, i) ==
    IF i > Len(tasks) THEN <<>>
    ELSE DependencyErrors(tasks, tasks[i].id, tasks[i].dependencies, 1)
         \o ValidateFrom(tasks, i + 1)

\* A validation that looks at the newest task only
validateDependencies_LastOnly(project) ==
    IF project.tasks = <<>> THEN <<>>
    ELSE ValidateFrom(project.tasks, Len(project.tasks))

\* validateDependencies(project).errors; isValid is errors.length === 0
validateDependencies(project) == ValidateFrom(project.tasks, 1)

\* A validation of one task that reports unresolved ids but searches no cycle
validateTaskDependencies_NoCycleSearch(allTasks, taskId, dependencies) ==
    SelectSeq(DependencyErrors(allTasks, taskId, dependencies, 1),
              LAMBDA e : e.kind = "missing")

\* validateTaskDependencies(allTasks, taskId, dependencies).errors
validateTaskDependencies(allTasks, taskId, dependencies) ==
    DependencyErrors(allTasks, taskId, dependencies, 1)

-----------------------------------------------------------------------------
\* The task tools' view of the memory store (MemoryStoreTool.execute with
\* namespace "chonky-task-manager" in the calling session).

\* operation 'get' on key tasks.projects.<projectKey>: manager.get returns the value
\* or undefined, and the tool formats it: an object as JSON, undefined as the text
\* "undefined".  The call itself always succeeds.
StoreGetProject(store, projectKey) ==
    IF projectKey \in DOMAIN store
    THEN [success |-> TRUE, result |-> "json", value |-> <<store[projectKey]>>]
    ELSE [success |-> TRUE, result |-> "undefined", value |-> <<>>]

\* A non-empty result text is truthy.
Truthy(result) == result # ""

\* operation 'set' on key tasks.projects.<projectKey> (overwrite defaults to true)
StoreSetProject(store, projectKey, project) ==
    [k \in DOMAIN store \cup {projectKey} |->
        IF k = projectKey THEN project ELSE store[k]]

-----------------------------------------------------------------------------
\* Results of a tool call: the ToolExecutionResult (ok, err, and the metadata of a
\* success as a sequence of tags) and the store contents the call leaves behind.
\* err "invalid-input" is the raised ValidationError.

Failed(kind, store, active) ==
    [ok |-> FALSE, err |-> kind, meta |-> <<>>, store |-> store, active |-> active]

SucceededWith(meta, store, active) ==
    [ok |-> TRUE, err |-> "", meta |-> meta, store |-> store, active |-> active]

Succeeded(store, active) == SucceededWith(<<>>, store, active)

NewTask(id, title, sc, priority, deps, now) ==
    [id |-> id, title |-> title, successCriteria |-> sc, status |-> "pending",
     priority |-> priority, dependencies |-> deps, subtasks |-> <<>>,
     notes |-> <<>>, created |-> now, updated |-> now]

NewSubtask(id, title, deps) ==
    [id |-> id, title |-> title, status |-> "pending", dependencies |-> deps,
     notes |-> <<>>]

\* A create-project that looks the project up under the name as given
CreateProjectExec_ExactName(store, active, name, now) ==
    IF name = <<>> THEN Failed("invalid-input", store, active)
    ELSE IF validateProjectName(name) # "valid"
    THEN Failed(validateProjectName(name), store, active)
    ELSE LET projectKey == normalizeProjectKey(name)
         IN IF \E k \in DOMAIN store : store[k].name = name
            THEN Failed("already-exists", store, active)
            ELSE Succeeded(
                    StoreSetProject(store, projectKey,
                        [name |-> name, tasks |-> <<>>, nextId |-> 1,
                         created |-> now, updated |-> now]),
                    <<name>>)

\* A create-project that stores the project and leaves the active-project
\* reference as it is
CreateProjectExec_KeepsPointer(store, active, name, now) ==
    IF name = <<>> THEN Failed("invalid-input", store, active)
    ELSE IF validateProjectName(name) # "valid"
    THEN Failed(validateProjectName(name), store, active)
    ELSE LET projectKey == normalizeProjectKey(name)
             existingResult == StoreGetProject(store, projectKey)
         IN IF existingResult.success /\ Truthy(existingResult.result)
               /\ existingResult.result # "undefined"
            THEN Failed("already-exists", store, active)
            ELSE Succeeded(
                    StoreSetProject(store, projectKey,
                        [name |-> name, tasks |-> <<>>, nextId |-> 1,
                         created |-> now, updated |-> now]),
                    active)

\* TaskManagerCreateProjectTool.execute
CreateProjectExec(store, active, name, now) ==
    IF name = <<>> THEN Failed("invalid-input", store, active)
    ELSE IF validateProjectName(name) # "valid"
    THEN Failed(validateProjectName(name), store, active)
    ELSE LET projectKey == normalizeProjectKey(name)
             existingResult == StoreGetProject(store, projectKey)
         IN IF existingResult.success /\ Truthy(existingResult.result)
               /\ existingResult.result # "undefined"
            THEN Failed("already-exists", store, active)
            ELSE Succeeded(
                    StoreSetProject(store, projectKey,
                        [name |-> name, tasks |-> <<>>, nextId |-> 1,
                         created |-> now, updated |-> now]),
                    <<name>>)

\* TaskManagerAddTaskTool.execute.  parentTaskId 0 stands for an absent (or zero,
\* equally falsy) parentTaskId.
AddTaskExec(store, active, name, title, sc, priority, deps, parentTaskId, now) ==
    LET projectKey == normalizeProjectKey(name)
        projectResult == StoreGetProject(store, projectKey)
    IN
    IF name = <<>> THEN Failed("invalid-input", store, active)
    ELSE IF ~projectResult.success \/ projectResult.result = "undefined"
    THEN Failed("project-not-found", store, active)
    ELSE
    LET project == projectResult.value[1]
    IN
    IF \E k \in DOMAIN deps : findTaskById(project, deps[k]) = 0
    THEN Failed("dependency-missing", store, active)
    ELSE IF parentTaskId # 0 /\ findTaskById(project, parentTaskId) = 0
    THEN Failed("parent-missing", store, active)
    ELSE
    LET taskId == project.nextId          \* getNextTaskId, also for a subtask
        p1 == [project EXCEPT !.nextId = taskId + 1, !.updated = now]
        newTask == NewTask(taskId, title, sc, priority, deps, now)
        pi == findTaskById(p1, parentTaskId)
        p2 == IF parentTaskId # 0
              THEN [p1 EXCEPT
                      !.tasks[pi].subtasks =
                          Append(@, NewSubtask(getNextSubtaskId(p1.tasks[pi]),
                                               title, deps)),
                      !.tasks[pi].updated = now]
              ELSE [p1 EXCEPT !.tasks = Append(@, newTask)]
        p3 == [p2 EXCEPT !.updated = now]     \* touchProject
    IN
    IF validateDependencies(p3) # <<>>
    THEN Failed("dependency-validation", store, active)
    ELSE Succeeded(StoreSetProject(store, projectKey, p3), active)

\* TaskManagerBatchAddTasksTool.execute.  items: the tasks array, each item
\* [title, sc, priority, deps, parentTaskId].
\* (variant: every item of the batch takes the project's nextId)
BatchCreatedTasks_SameId(project, items, now) ==
    [i \in DOMAIN items |->
        NewTask(project.nextId, items[i].title,
                IF items[i].sc = Undefined THEN <<>> ELSE items[i].sc,
                items[i].priority, items[i].deps, now)]

BatchCreatedTasks(project, items, now) ==
    [i \in DOMAIN items |->
        NewTask(project.nextId + (i - 1), items[i].title,
                IF items[i].sc = Undefined THEN <<>> ELSE items[i].sc,
                items[i].priority, items[i].deps, now)]

BatchAddTasksExec(store, active, name, items, now) ==
    LET projectKey == normalizeProjectKey(name)
        projectResult == StoreGetProject(store, projectKey)
    IN
    IF name = <<>> \/ items = <<>> THEN Failed("invalid-input", store, active)
    ELSE IF ~projectResult.success \/ projectResult.result = "undefined"
    THEN Failed("project-not-found", store, active)
    ELSE
    LET project == projectResult.value[1]
        createdTasks == BatchCreatedTasks(project, items, now)
        allTasks == project.tasks \o createdTasks
    IN
    \* first pass: a named parent must exist (and is then not used)
    IF \E i \in DOMAIN items :
          items[i].parentTaskId # 0 /\ findTaskById(project, items[i].parentTaskId) = 0
    THEN Failed("parent-missing", store, active)
    \* second pass: every dependency id is in the project or in the batch
    ELSE IF \E i \in DOMAIN items : \E k \in DOMAIN items[i].deps :
               /\ findTaskById(project, items[i].deps[k]) = 0
               /\ FindIndex(createdTasks, items[i].deps[k]) = 0
    THEN Failed("dependency-missing", store, active)
    \* third pass: validateTaskDependencies for each created task
    ELSE IF \E i \in DOMAIN createdTasks :
               validateTaskDependencies(allTasks, createdTasks[i].id,
                                        createdTasks[i].dependencies) # <<>>
    THEN Failed("dependency-validation", store, active)
    ELSE Succeeded(
            StoreSetProject(store, projectKey,
                [project EXCEPT !.tasks = allTasks,
                                !.nextId = @ + Len(createdTasks),
                                !.updated = now]),
            active)

\* Array.prototype.includes / filter on a dependency list
SeqIncludes(s, x) == \E i \in DOMAIN s : s[i] = x

RECURSIVE SeqRemove(_, _)
SeqRemove(s, x) ==
    IF s = <<>> THEN <<>>
    ELSE IF Head(s) = x THEN SeqRemove(Tail(s), x)
    ELSE <<Head(s)>> \o SeqRemove(Tail(s), x)

\* TaskManagerDependenciesTool.execute
ManageDependenciesExec(store, active, name, taskId, operation, dependencyId, now) ==
    LET projectKey == normalizeProjectKey(name)
        projectResult == StoreGetProject(store, projectKey)
    IN
    IF name = <<>> \/ taskId <= 0 \/ dependencyId <= 0
    THEN Failed("invalid-input", store, active)
    ELSE IF ~projectResult.success \/ projectResult.result = "undefined"
    THEN Failed("project-not-found", store, active)
    ELSE
    LET project == projectResult.value[1]
        ti == findTaskById(project, taskId)
    IN
    IF ti = 0 THEN Failed("task-not-found", store, active)
    ELSE IF findTaskById(project, dependencyId) = 0
    THEN Failed("dependency-not-found", store, active)
    ELSE IF taskId = dependencyId THEN Failed("self-dependency", store, active)
    ELSE
    LET task == project.tasks[ti]
        added == [project EXCEPT !.tasks[ti].dependencies = Append(@, dependencyId)]
        removed == [project EXCEPT
                       !.tasks[ti].dependencies = SeqRemove(@, dependencyId)]
        touched(p) == [p EXCEPT !.tasks[ti].updated = now, !.updated = now]
    IN
    IF operation = "add"
    THEN IF SeqIncludes(task.dependencies, dependencyId)
         THEN Failed("already-depends", store, active)
         ELSE IF validateDependencies(added) # <<>>
         THEN Failed("circular-dependency", store, active)
         ELSE Succeeded(StoreSetProject(store, projectKey, touched(added)), active)
    ELSE IF ~SeqIncludes(task.dependencies, dependencyId)
         THEN Failed("not-a-dependency", store, active)
         ELSE Succeeded(StoreSetProject(store, projectKey, touched(removed)), active)

-----------------------------------------------------------------------------
\* import-folder.  A folder is [exists, name, listing]: whether fs.access finds it,
\* its base name, and the task files in the order readdir lists them.  A file
\* task<n>.md or task<n>-<m>.md is [n, m, hasM, readable, title, sc, priority, deps]
\* with the frontmatter fields as parsed; hasM tells the two filename shapes apart.

\* parseTaskFilename
parseTaskFilename(file) ==
    LET subtaskId == IF file.hasM THEN file.m ELSE 0     \* 0: undefined or zero
    IN [taskId |-> file.n,
        parentId |-> IF subtaskId # 0 THEN file.n ELSE 0,
        isSubtask |-> subtaskId # 0]

\* parseTaskFile: the filename fields and the content fields
parseTaskFile(file) ==
    LET f == parseTaskFilename(file)
    IN [taskId |-> f.taskId, parentId |-> f.parentId, isSubtask |-> f.isSubtask,
        title |-> IF file.title # Undefined THEN file.title
                  ELSE IF f.parentId # 0 THEN <<"Task", f.taskId, f.taskId>>
                  ELSE <<"Task", f.taskId>>,
        successCriteria |-> file.sc,
        priority |-> file.priority,
        dependencies |-> file.deps]

\* The comparator given to parsedTasks.sort: negative, zero or positive
CompareParsed(a, b) ==
    IF a.isSubtask /\ ~b.isSubtask THEN 1
    ELSE IF ~a.isSubtask /\ b.isSubtask THEN -1
    ELSE IF a.parentId # b.parentId THEN a.parentId - b.parentId
    ELSE a.taskId - b.taskId

\* Array.prototype.sort is stable: insertion after the last element not greater
RECURSIVE InsertSorted(_, _)
InsertSorted(sorted, x) ==
    IF sorted = <<>> THEN <<x>>
    ELSE IF CompareParsed(x, sorted[Len(sorted)]) >= 0 THEN Append(sorted, x)
    ELSE Append(InsertSorted(SubSeq(sorted, 1, Len(sorted) - 1), x),
                sorted[Len(sorted)])

RECURSIVE SortParsed(_)
SortParsed(s) ==
    IF s = <<>> THEN <<>>
    ELSE InsertSorted(SortParsed(SubSeq(s, 1, Len(s) - 1)), s[Len(s)])

\* The replay loop over the sorted files: [failed, project]
RECURSIVE ReplayFiles(_, _, _, _)
ReplayFiles(project, parsed, k, now) ==
    IF k > Len(parsed) THEN [failed |-> FALSE, project |-> project]
    ELSE LET t == parsed[k]
             pi == FindIndex(project.tasks, t.parentId)
         IN IF t.isSubtask /\ t.parentId # 0
            THEN IF pi = 0 THEN [failed |-> TRUE, project |-> project]
                 ELSE ReplayFiles(
                        [project EXCEPT
                            !.tasks[pi].subtasks =
                                Append(@, NewSubtask(Len(@) + 1, t.title,
                                                     t.dependencies)),
                            !.tasks[pi].updated = now],
                        parsed, k + 1, now)
            ELSE ReplayFiles(
                    [project EXCEPT
                        !.tasks = Append(@, NewTask(project.nextId, t.title,
                                                    t.successCriteria, t.priority,
                                                    t.dependencies, now)),
                        !.nextId = @ + 1],
                    parsed, k + 1, now)

\* The reset of an existing project when overwrite is true
ClearForOverwrite_KeepNextId(project) == [project EXCEPT !.tasks = <<>>]

ClearForOverwrite(project) == [project EXCEPT !.tasks = <<>>, !.nextId = 1]

\* An import-folder that saves the project before the dependency validation
ImportFolderExec_SaveBeforeValidate(store, active, folder, projectName, createProject, overwrite, now) ==
    IF ~folder.exists THEN Failed("folder-not-found", store, active)
    ELSE
    LET name == IF projectName # Undefined /\ projectName # <<>>
                THEN projectName ELSE folder.name
        projectKey == normalizeProjectKey(name)
        existingResult == StoreGetProject(store, projectKey)
        projectExists == /\ existingResult.success
                         /\ Truthy(existingResult.result)
                         /\ existingResult.result # "undefined"
        start == IF projectExists
                 THEN ClearForOverwrite(existingResult.value[1])
                 ELSE [name |-> name, tasks |-> <<>>, nextId |-> 1,
                       created |-> now, updated |-> now]
        parsed == SortParsed([i \in DOMAIN folder.listing |->
                                 parseTaskFile(folder.listing[i])])
        replay == ReplayFiles(start, parsed, 1, now)
    IN
    IF validateProjectName(name) # "valid"
    THEN Failed(validateProjectName(name), store, active)
    ELSE IF projectExists /\ ~overwrite THEN Failed("already-exists", store, active)
    ELSE IF ~projectExists /\ ~createProject
    THEN Failed("project-not-found", store, active)
    ELSE IF folder.listing = <<>> THEN Failed("no-task-files", store, active)
    ELSE IF \E i \in DOMAIN folder.listing : ~folder.listing[i].readable
    THEN Failed("parse-error", store, active)
    ELSE IF replay.failed THEN Failed("parent-missing", store, active)
    ELSE IF validateDependencies(replay.project) # <<>>
    THEN Failed("dependency-validation",
                StoreSetProject(store, projectKey,
                                [replay.project EXCEPT !.updated = now]),
                active)
    ELSE SucceededWith(
            \* metadata.overwritten: projectExists && validated.overwrite
            IF projectExists /\ overwrite THEN <<"overwritten">> ELSE <<>>,
            StoreSetProject(store, projectKey,
                            [replay.project EXCEPT !.updated = now]),
            <<name>>)

\* TaskManagerImportFolderTool.execute.  projectName Undefined: not given.
ImportFolderExec(store, active, folder, projectName, createProject, overwrite, now) ==
    IF ~folder.exists THEN Failed("folder-not-found", store, active)
    ELSE
    LET name == IF projectName # Undefined /\ projectName # <<>>
                THEN projectName ELSE folder.name
        projectKey == normalizeProjectKey(name)
        existingResult == StoreGetProject(store, projectKey)
        projectExists == /\ existingResult.success
                         /\ Truthy(existingResult.result)
                         /\ existingResult.result # "undefined"
        start == IF projectExists
                 THEN ClearForOverwrite(existingResult.value[1])
                 ELSE [name |-> name, tasks |-> <<>>, nextId |-> 1,
                       created |-> now, updated |-> now]
        parsed == SortParsed([i \in DOMAIN folder.listing |->
                                 parseTaskFile(folder.listing[i])])
        replay == ReplayFiles(start, parsed, 1, now)
    IN
    IF validateProjectName(name) # "valid"
    THEN Failed(validateProjectName(name), store, active)
    ELSE IF projectExists /\ ~overwrite THEN Failed("already-exists", store, active)
    ELSE IF ~projectExists /\ ~createProject
    THEN Failed("project-not-found", store, active)
    ELSE IF folder.listing = <<>> THEN Failed("no-task-files", store, active)
    ELSE IF \E i \in DOMAIN folder.listing : ~folder.listing[i].readable
    THEN Failed("parse-error", store, active)
    ELSE IF replay.failed THEN Failed("parent-missing", store, active)
    ELSE IF validateDependencies(replay.project) # <<>>
    THEN Failed("dependency-validation", store, active)
    ELSE SucceededWith(
            \* metadata.overwritten: projectExists && validated.overwrite
            IF projectExists /\ overwrite THEN <<"overwritten">> ELSE <<>>,
            StoreSetProject(store, projectKey,
                            [replay.project EXCEPT !.updated = now]),
            <<name>>)

-----------------------------------------------------------------------------
\* Inputs of the tool calls.

MaxDeps == 1         \* length of a dependency list given to add-task or a batch item
MaxBatch == 2        \* items of one batch-add-tasks call

TaskIds == 1..MaxTasks

\* dependency arrays: every sequence of at most MaxDeps ids, existing or not
DepLists == UNION {[1..n -> TaskIds] : n \in 0..MaxDeps}

NameP == <<"p">>
NameUpperP == <<"P">>
NameQ == <<"q">>

TitleA == <<"A">>

BatchItem(deps, parentTaskId) ==
    [title |-> TitleA, sc |-> Undefined, priority |-> "medium", deps |-> deps,
     parentTaskId |-> parentTaskId]

Batches ==
    UNION {[1..n -> {BatchItem(d, 0) : d \in DepLists}] : n \in 1..MaxBatch}

File(n, m, hasM, deps) ==
    [n |-> n, m |-> m, hasM |-> hasM, readable |-> TRUE, title |-> Undefined,
     sc |-> Undefined, priority |-> "medium", deps |-> deps]

Folder(exists, listing) == [exists |-> exists, name |-> NameP, listing |-> listing]

Folders ==
    { Folder(FALSE, <<>>),
      Folder(TRUE, <<>>),
      Folder(TRUE, <<File(1, 0, FALSE, <<>>), File(2, 0, FALSE, <<1>>)>>),
      Folder(TRUE, <<File(1, 1, TRUE, <<>>), File(2, 0, FALSE, <<>>),
                     File(1, 0, FALSE, <<2>>)>>),
      Folder(TRUE, <<File(1, 0, FALSE, <<2>>), File(2, 0, FALSE, <<1>>)>>),
      Folder(TRUE, <<File(2, 0, FALSE, <<>>), File(3, 0, FALSE, <<1>>)>>),
      Folder(TRUE, <<File(1, 0, FALSE, <<3>>)>>),
      Folder(TRUE, <<File(2, 1, TRUE, <<>>), File(1, 0, FALSE, <<>>)>>) }

-----------------------------------------------------------------------------
\* The tool calls as actions.  A call reads the clock once; what it returns is
\* kept in last.

\* The ids of the main tasks a store holds under a project key
StoredIds(store, projectKey) ==
    IF projectKey \in DOMAIN store
    THEN {store[projectKey].tasks[i].id : i \in DOMAIN store[projectKey].tasks}
    ELSE {}

\* The ids a call gave to the main tasks it created in the project it addressed:
\* the tasks the written project holds and the read one did not, and every task of
\* a project import-folder has rebuilt from an empty task list.
CreatedIds(store, projectKey, r) ==
    IF ~r.ok THEN {}
    ELSE IF "overwritten" \in Range(r.meta) THEN StoredIds(r.store, projectKey)
    ELSE StoredIds(r.store, projectKey) \ StoredIds(store, projectKey)

\* The record of the ids handed out: ever, over the whole life of the project, and
\* run, since import-folder last emptied it.
Issue(given, projectKey, r, created) ==
    IF ~r.ok \/ projectKey \notin DOMAIN r.store THEN given
    ELSE LET old == IF projectKey \in DOMAIN given THEN given[projectKey]
                    ELSE [ever |-> {}, run |-> {}]
         IN [k \in DOMAIN given \cup {projectKey} |->
                IF k # projectKey THEN given[k]
                ELSE [ever |-> old.ever \cup created,
                      run |-> IF "overwritten" \in Range(r.meta) THEN created
                              ELSE old.run \cup created]]

\* What a tool that only reports has reported: next-task's recommendation
NoRecommendation == [nextTask |-> <<>>, readyTasks |-> {}, waiting |-> <<>>]

\* A call that runs from its first line to its return with no other call in
\* between.
ApplyReport(tool, name, r, report) ==
    LET projectKey == normalizeProjectKey(name)
        created == CreatedIds(projects, projectKey, r)
    IN /\ projects' = r.store
       /\ activeProject' = r.active
       /\ last' = [tool |-> tool, name |-> name, ok |-> r.ok, err |-> r.err,
                   meta |-> r.meta,
                   key |-> projectKey, created |-> created, report |-> report]
       /\ issued' = Issue(issued, projectKey, r, created)
       /\ UNCHANGED <<race, registry, adapter>>

Apply(tool, name, r) == ApplyReport(tool, name, r, NoRecommendation)

\* The stored project a name addresses, <<>> when there is none
Stored(name) == StoreGetProject(projects, normalizeProjectKey(name)).value

\* Bound of the model: ids up to MaxTasks are handed out
RoomFor(name, n) ==
    Stored(name) # <<>> => Stored(name)[1].nextId + n - 1 <= MaxTasks

CreateProject(name) ==
    /\ Apply("create-project", name, CreateProjectExec(projects, activeProject, name, clock))
    /\ UNCHANGED <<files, clock, storeVars, sseVars>>

AddTask(name, sc, priority, deps, parentTaskId) ==
    /\ RoomFor(name, 1)
    /\ \A i \in DOMAIN Stored(name) :
          \A t \in DOMAIN Stored(name)[i].tasks :
             Stored(name)[i].tasks[t].id = parentTaskId
                => Len(Stored(name)[i].tasks[t].subtasks) < MaxSubtasks
    /\ Apply("add-task", name,
             AddTaskExec(projects, activeProject, name, TitleA, sc, priority, deps,
                         parentTaskId, clock))
    /\ UNCHANGED <<files, clock, storeVars, sseVars>>

BatchAddTasks(name, items) ==
    /\ RoomFor(name, Len(items))
    /\ Apply("batch-add-tasks", name,
             BatchAddTasksExec(projects, activeProject, name, items, clock))
    /\ UNCHANGED <<files, clock, storeVars, sseVars>>

ManageDependencies(name, taskId, operation, dependencyId) ==
    /\ Apply("manage-dependencies", name,
             ManageDependenciesExec(projects, activeProject, name, taskId, operation,
                                    dependencyId, clock))
    /\ UNCHANGED <<files, clock, storeVars, sseVars>>

ImportFolder(folder, projectName, createProject, overwrite) ==
    /\ Apply("import-folder",
             IF projectName # Undefined /\ projectName # <<>> THEN projectName
             ELSE folder.name,
             ImportFolderExec(projects, activeProject, folder, projectName,
                              createProject, overwrite, clock))
    /\ UNCHANGED <<files, clock, storeVars, sseVars>>

\* Time passes between calls
Tick ==
    /\ clock < MaxClock
    /\ clock' = clock + 1
    /\ UNCHANGED <<projects, activeProject, files, last, issued, race, registry,
                   adapter, storeVars, sseVars>>

-----------------------------------------------------------------------------
\* The state after construction: empty store, no connection, no call made.

NoCall ==
    [tool |-> "none", name |-> <<>>, ok |-> TRUE, err |-> "", meta |-> <<>>,
     key |-> <<>>,
     created |-> {}, report |-> NoRecommendation]

NoRace == [flight |-> <<>>, returned |-> <<>>, overlapped |-> FALSE]

NoRegistryCall == [op |-> "none", name |-> "", tool |-> <<>>, threw |-> FALSE]

\* clientSupportsRoots false, no transport connected, no timer armed
NoRoots ==
    [clientSupportsRoots |-> FALSE, transport |-> <<>>, stdio |-> FALSE,
     timers |-> {}, advertised |-> {}, declined |-> {}, sent |-> {},
     early |-> {}, env |-> {}, workspace |-> "cwd"]

NoInvoke == [toolName |-> "", outcome |-> <<>>, answer |-> <<>>]

NoPost ==
    [status |-> 0, conn |-> <<>>, clientId |-> 0, sessionId |-> <<>>, values |-> {}]

NoStoreCall ==
    [operation |-> "none", sessionId |-> <<>>, namespace |-> <<>>, ok |-> TRUE,
     values |-> {}]

Init ==
    /\ projects = <<>>
    /\ activeProject = <<>>
    /\ files = <<>>
    /\ clock = 0
    /\ last = NoCall
    /\ issued = <<>>
    /\ race = NoRace
    /\ registry = [tools |-> <<>>, last |-> NoRegistryCall]
    /\ adapter = [wrappers |-> {}, last |-> NoInvoke]
    /\ stores = <<>>
    /\ storeLast = NoStoreCall
    /\ conns = [open |-> <<>>, used |-> {}]
    /\ currentSessionId = <<"a","n","o","n","y","m","o","u","s">>
    /\ callLog = NoPost
    /\ roots = NoRoots

\* The tools that build a project's task graph, on one project name.
Next ==
    \/ CreateProject(NameP)
    \/ \E deps \in DepLists, parent \in 0..MaxTasks :
          AddTask(NameP, Undefined, "medium", deps, parent)
    \/ \E items \in Batches : BatchAddTasks(NameP, items)
    \/ \E t \in 0..MaxTasks, d \in 1..MaxTasks, op \in {"add", "remove"} :
          ManageDependencies(NameP, t, op, d)
    \/ \E folder \in Folders, createProject \in BOOLEAN, overwrite \in BOOLEAN :
          ImportFolder(folder, Undefined, createProject, overwrite)

Spec == Init /\ [][Next]_vars

-----------------------------------------------------------------------------
\* import-folder on folders whose file numbers need not start at 1 nor be
\* contiguous: every listing of at most MaxFiles distinct files among
\* task<n>.md and task<n>-1.md, n up to MaxTasks.

MaxFiles == 3        \* task files in one folder

ImportFiles ==
    {File(n, 0, FALSE, <<>>) : n \in 1..MaxTasks}
       \cup {File(n, 1, TRUE, <<>>) : n \in 1..MaxTasks}

ImportListings ==
    UNION {{l \in [1..k -> ImportFiles] : \A i, j \in 1..k : i # j => l[i] # l[j]} :
             k \in 1..MaxFiles}

ImportFolders == {Folder(TRUE, l) : l \in ImportListings}

NextImport ==
    \/ \E folder \in ImportFolders, createProject \in BOOLEAN, overwrite \in BOOLEAN :
          ImportFolder(folder, Undefined, createProject, overwrite)
    \/ Tick

SpecImport == Init /\ [][NextImport]_vars

-----------------------------------------------------------------------------
\* create-project under the names a client can send: two names differing in letter
\* case only, a third name, the empty name and a name with a space.

NameBad == <<"p", " ">>
CreateNames == {NameP, NameUpperP, NameQ, <<>>, NameBad}

NextCreate ==
    \/ \E name \in CreateNames : CreateProject(name)
    \/ \E name \in {NameP, NameUpperP, NameQ} :
          AddTask(name, Undefined, "medium", <<>>, 0)
    \/ Tick

SpecCreate == Init /\ [][NextCreate]_vars

-----------------------------------------------------------------------------
\* update-task.

\* validateCompletion's keyword list
completionKeywords ==
    << <<"p","r","o","o","f">>,
       <<"c","o","m","p","l","e","t","e">>,
       <<"d","o","n","e">>,
       <<"f","i","n","i","s","h","e","d">>,
       <<"v","e","r","i","f","i","e","d">>,
       <<"t","e","s","t","e","d">>,
       <<"v","a","l","i","d","a","t","e","d">>,
       <<"c","o","n","f","i","r","m","e","d">>,
       <<"s","u","c","c","e","s","s","f","u","l">>,
       <<"a","c","h","i","e","v","e","d">>,
       <<"m","e","t">>,
       <<"s","a","t","i","s","f","i","e","d">>,
       <<"i","m","p","l","e","m","e","n","t","e","d">>,
       <<"d","e","p","l","o","y","e","d">>,
       <<"w","o","r","k","i","n","g">>,
       <<"f","i","x","e","d">>,
       <<"r","e","s","o","l","v","e","d">>,
       <<"d","e","l","i","v","e","r","e","d">> >>

\* hasSuccessCriteria: the field is there, is not undefined or empty, and has a
\* character that trim() keeps
hasSuccessCriteria(entity) ==
    /\ "successCriteria" \in DOMAIN entity
    /\ entity.successCriteria # Undefined
    /\ entity.successCriteria # <<>>
    /\ ~IsBlank(entity.successCriteria)

\* The keyword test with the note taken as written
hasCompletionEvidence_CaseSensitive(notes) ==
    \E k \in DOMAIN completionKeywords : Includes(notes, completionKeywords[k])

\* hasCompletionEvidence of validateCompletion
hasCompletionEvidence(notes) ==
    \E k \in DOMAIN completionKeywords :
        Includes(ToLowerCase(notes), ToLowerCase(completionKeywords[k]))

\* validateCompletion(entity, notes).isValid
validateCompletion(entity, notes) ==
    IF ~hasSuccessCriteria(entity) THEN TRUE
    ELSE ~(notes = <<>> \/ IsBlank(notes) \/ ~hasCompletionEvidence(notes))

\* An appendNotes that keeps the newest entry only
appendNotes_Replace(entity, newNotes, oldStatus, newStatus, now) ==
    [entity EXCEPT !.notes =
        <<[at |-> now,
           change |-> IF newStatus # "" /\ newStatus # oldStatus
                      THEN <<oldStatus, newStatus>> ELSE <<>>,
           text |-> newNotes]>>]

\* appendNotes: one entry per call, with the status line when the status changes.
\* newStatus "" is an absent status.
appendNotes(entity, newNotes, oldStatus, newStatus, now) ==
    [entity EXCEPT !.notes =
        Append(@, [at |-> now,
                   change |-> IF newStatus # "" /\ newStatus # oldStatus
                              THEN <<oldStatus, newStatus>> ELSE <<>>,
                   text |-> newNotes])]

\* checkSubtaskDependencies(task, subtask).incompleteDeps, as a set
checkSubtaskDependencies(task, subtask) ==
    {depId \in Range(subtask.dependencies) :
        \E i \in DOMAIN task.subtasks :
            /\ task.subtasks[i].id = depId
            /\ \A j \in 1..(i - 1) : task.subtasks[j].id # depId
            /\ task.subtasks[i].status \notin FINAL_STATUSES}

\* the dependency filter of the main-task branch, as a set
incompleteDeps(project, task) ==
    {depId \in Range(task.dependencies) :
        /\ findTaskById(project, depId) # 0
        /\ project.tasks[findTaskById(project, depId)].status \notin FINAL_STATUSES}

\* A subtask filter that accepts done only
incompleteSubtasks_DoneOnly(task) ==
    {i \in DOMAIN task.subtasks : task.subtasks[i].status # "done"}

\* the subtask filter of the main-task branch, as a set of positions
incompleteSubtasks(task) ==
    {i \in DOMAIN task.subtasks : task.subtasks[i].status \notin FINAL_STATUSES}

CountStatus(task, status) ==
    Cardinality({i \in DOMAIN task.subtasks : task.subtasks[i].status = status})

\* A parent update that completes the parent with its last subtask
updateParentTaskStatus_AutoComplete(task, now) ==
    IF Len(task.subtasks) = 0 THEN task
    ELSE IF CountStatus(task, "done") = Len(task.subtasks)
    THEN [task EXCEPT !.status = "done", !.updated = now]
    ELSE task

\* A parent update that looks at in-progress subtasks before blocked ones
updateParentTaskStatus_InProgressFirst(task, now) ==
    IF Len(task.subtasks) = 0 THEN task
    ELSE IF CountStatus(task, "done") = Len(task.subtasks)
    THEN IF task.status # "review" /\ task.status # "done"
         THEN [task EXCEPT !.status = "review", !.updated = now]
         ELSE task
    ELSE IF CountStatus(task, "in-progress") > 0 /\ task.status = "pending"
    THEN [task EXCEPT !.status = "in-progress", !.updated = now]
    ELSE IF CountStatus(task, "blocked") > 0 /\ task.status # "blocked"
    THEN [task EXCEPT !.status = "blocked", !.updated = now]
    ELSE task

\* updateParentTaskStatus
updateParentTaskStatus(task, now) ==
    IF Len(task.subtasks) = 0 THEN task
    ELSE IF CountStatus(task, "done") = Len(task.subtasks)
    THEN IF task.status # "review" /\ task.status # "done"
         THEN [task EXCEPT !.status = "review", !.updated = now]
         ELSE task
    ELSE IF CountStatus(task, "blocked") > 0 /\ task.status # "blocked"
    THEN [task EXCEPT !.status = "blocked", !.updated = now]
    ELSE IF CountStatus(task, "in-progress") > 0 /\ task.status = "pending"
    THEN [task EXCEPT !.status = "in-progress", !.updated = now]
    ELSE task

\* getParentStatusChange(task, oldTaskStatus) # null
getParentStatusChange(task, oldTaskStatus) == task.status # oldTaskStatus

\* The subtask branch of update-task: the parent task after the update, or the
\* error of the failing gate.
UpdateSubtask(task, si, status, notes, now) ==
    LET subtask == task.subtasks[si]
        oldStatus == subtask.status
        changes == status # "" /\ status # oldStatus
    IN IF changes /\ status = "done" /\ ~validateCompletion(subtask, notes)
       THEN [err |-> "completion-proof", task |-> task]
       ELSE IF changes /\ status = "done"
               /\ checkSubtaskDependencies(task, subtask) # {}
       THEN [err |-> "incomplete-dependencies", task |-> task]
       ELSE LET s1 == IF changes THEN [subtask EXCEPT !.status = status]
                      ELSE subtask
                s2 == appendNotes(s1, notes, oldStatus, status, now)
                t1 == [task EXCEPT !.subtasks[si] = s2, !.updated = now]
            IN [err |-> "", task |-> updateParentTaskStatus(t1, now)]

\* A main-task branch that also empties the dependency list of the task
UpdateMainTask_DropDependencies(project, task, status, notes, now) ==
    LET oldStatus == task.status
        changes == status # "" /\ status # oldStatus
    IN IF changes /\ status = "done" /\ ~validateCompletion(task, notes)
       THEN [err |-> "completion-proof", task |-> task]
       ELSE IF changes /\ status = "done" /\ incompleteDeps(project, task) # {}
       THEN [err |-> "incomplete-dependencies", task |-> task]
       ELSE IF changes /\ status = "done" /\ incompleteSubtasks(task) # {}
       THEN [err |-> "incomplete-subtasks", task |-> task]
       ELSE LET t1 == IF changes THEN [task EXCEPT !.status = status] ELSE task
                t2 == appendNotes(t1, notes, oldStatus, status, now)
            IN [err |-> "", task |-> [t2 EXCEPT !.updated = now,
                                               !.dependencies = <<>>]]

\* The main-task branch of update-task
UpdateMainTask(project, task, status, notes, now) ==
    LET oldStatus == task.status
        changes == status # "" /\ status # oldStatus
    IN IF changes /\ status = "done" /\ ~validateCompletion(task, notes)
       THEN [err |-> "completion-proof", task |-> task]
       ELSE IF changes /\ status = "done" /\ incompleteDeps(project, task) # {}
       THEN [err |-> "incomplete-dependencies", task |-> task]
       ELSE IF changes /\ status = "done" /\ incompleteSubtasks(task) # {}
       THEN [err |-> "incomplete-subtasks", task |-> task]
       ELSE LET t1 == IF changes THEN [task EXCEPT !.status = status] ELSE task
                t2 == appendNotes(t1, notes, oldStatus, status, now)
            IN [err |-> "", task |-> [t2 EXCEPT !.updated = now]]

\* The position of the first subtask with the given id, 0 if there is none
FindSubtask(task, subtaskId) == FindIndex(task.subtasks, subtaskId)

\* TaskManagerUpdateTaskTool.execute.  status "" is an absent status.
\* notes <<>> is notes that are absent or empty: the schema refuses both.
UpdateTaskExec(store, active, name, taskId, status, notes, now) ==
    LET projectKey == normalizeProjectKey(name)
        getResult == StoreGetProject(store, projectKey)
    IN
    IF name = <<>> \/ taskId = <<>> \/ notes = <<>>
    THEN Failed("invalid-input", store, active)
    ELSE IF ~getResult.success \/ ~Truthy(getResult.result)
            \/ getResult.result = "undefined"
    THEN Failed("project-not-found", store, active)
    ELSE
    LET project == getResult.value[1]
        parsed == parseTaskId(taskId)
        ti == findTaskById(project, parsed.parentId)
    IN
    IF ti = 0 THEN Failed("task-not-found", store, active)
    ELSE
    LET task == project.tasks[ti]
        si == FindSubtask(task, parsed.subtaskId)
    IN
    IF parsed.isSubtask /\ si = 0 THEN Failed("subtask-not-found", store, active)
    ELSE
    LET oldStatus == IF parsed.isSubtask THEN task.subtasks[si].status
                     ELSE task.status
        u == IF parsed.isSubtask
             THEN UpdateSubtask(task, si, status, notes, now)
             ELSE UpdateMainTask(project, task, status, notes, now)
        saved == [project EXCEPT !.tasks[ti] = u.task]
    IN
    IF u.err # "" THEN Failed(u.err, store, active)
    ELSE SucceededWith(
            <<IF parsed.isSubtask THEN "subtask" ELSE "task">>
              \o (IF parsed.isSubtask /\ getParentStatusChange(u.task, oldStatus)
                  THEN <<"autoUpdates">> ELSE <<>>),
            StoreSetProject(store, projectKey, saved), active)

\* Inputs of update-task.

NoteWip == <<"w","i","p">>
NoteDONE == <<"D","O","N","E">>
NoteUnmet == <<"u","n","m","e","t">>
NoteFix == <<"F","i","x">>
NoteBlank == <<" ">>

\* the notes the properties range over; the empty note is refused by the schema
AllNotes == {<<>>, NoteBlank, NoteWip, NoteDONE, NoteUnmet, NoteFix}

\* successCriteria: absent, empty, blank, given
CriteriaGiven == <<"o","k">>
AllCriteria == {Undefined, <<>>, NoteBlank, CriteriaGiven}

\* the status argument: absent or one of the seven
AllStatuses == {""} \cup VALID_STATUSES

\* task ids "n" and "n.m"
TaskRefs == {<<n>> : n \in 1..MaxTasks}
                \cup {<<n, m>> : n \in 1..MaxTasks, m \in 1..MaxSubtasks}

\* The notes the addressed task or subtask of the stored project carries
NotesOf(name, taskId) ==
    IF Stored(name) = <<>> THEN <<>>
    ELSE LET project == Stored(name)[1]
             ti == findTaskById(project, taskId[1])
         IN IF ti = 0 THEN <<>>
            ELSE IF Len(taskId) = 1 THEN project.tasks[ti].notes
            ELSE IF FindSubtask(project.tasks[ti], taskId[2]) = 0 THEN <<>>
            ELSE project.tasks[ti].subtasks[FindSubtask(project.tasks[ti],
                                                        taskId[2])].notes

\* update-task; bound of the model: MaxNotes entries per task or subtask
UpdateTask(name, taskId, status, notes) ==
    /\ Len(NotesOf(name, taskId)) < MaxNotes
    /\ Apply("update-task", name,
             UpdateTaskExec(projects, activeProject, name, taskId, status, notes,
                            clock))
    /\ UNCHANGED <<files, clock, storeVars, sseVars>>

\* The update specification: one project is built with add-task and its tasks and
\* subtasks are updated.
NextUpdate ==
    \/ Stored(NameP) = <<>> /\ CreateProject(NameP)
    \/ \E sc \in {Undefined, CriteriaGiven}, deps \in {<<>>, <<1>>},
          parentTaskId \in {0, 1} :
          AddTask(NameP, sc, "medium", deps, parentTaskId)
    \/ \E taskId \in {<<1>>, <<2>>, <<3>>, <<1, 1>>, <<1, 2>>},
          update \in {<<"done", NoteWip>>, <<"done", NoteDONE>>,
                      <<"cancelled", NoteWip>>} :
          UpdateTask(NameP, taskId, update[1], update[2])

SpecUpdate == Init /\ [][NextUpdate]_vars

\* The parent specification: one task with subtasks; the task and its subtasks
\* are given every status, or a note only.
NextParent ==
    \/ Stored(NameP) = <<>> /\ CreateProject(NameP)
    \/ \E parentTaskId \in {0, 1} :
          AddTask(NameP, Undefined, "medium", <<>>, parentTaskId)
    \/ \E taskId \in {<<1>>, <<1, 1>>, <<1, 2>>}, status \in AllStatuses :
          UpdateTask(NameP, taskId, status, NoteDONE)

SpecParent == Init /\ [][NextParent]_vars

-----------------------------------------------------------------------------
\* The answer to a tools/call.  A text is a sequence of characters and of pieces
\* that are not spelled out: the tool's name, the message.

\* ChonkyTool.error: `Error: ${message}`
ErrorResult(message) == <<"E", "r", "r", "o", "r", ":", " ">> \o <<message>>

\* the text of the handler's catch: `Error executing tool '${name}': ${message}`
CaughtText(name, message) ==
    <<"E", "r", "r", "o", "r", " ", "e", "x", "e", "c", "u", "t", "i", "n", "g", " ", "t", "o", "o", "l", " ", "'">>
        \o <<name>> \o <<"'", ":", " ">> \o <<message>>

\* The CallToolRequestSchema handler on the outcome of the call: an unknown name
\* throws before the try and the request is answered with a protocol error; what
\* tool.execute throws (err "invalid-input") is caught; what it returns is
\* passed on with isError = !success.
CallToolResponse(call) ==
    IF call.err = "tool-not-found"
    THEN [answer |-> "protocol-error", isError |-> FALSE, text |-> <<>>]
    ELSE IF call.err = "invalid-input"
    THEN [answer |-> "result", isError |-> TRUE,
          text |-> CaughtText(call.tool, call.err)]
    ELSE [answer |-> "result", isError |-> ~call.ok,
          text |-> IF call.ok THEN <<"result">> ELSE ErrorResult(call.err)]

\* tools/call with a name the registry does not hold
UnknownTool(name) ==
    /\ Apply("unknown", name, Failed("tool-not-found", projects, activeProject))
    /\ UNCHANGED <<files, clock, storeVars, sseVars>>

\* The call specification: tools are called with arguments that pass, that the
\* tool refuses and that its schema rejects, and under a name that is not
\* registered.
NextCall ==
    \/ \E name \in {NameP, <<>>} : CreateProject(name)
    \/ \E deps \in {<<>>, <<1>>} : AddTask(NameP, Undefined, "medium", deps, 0)
    \/ \E t \in 0..MaxTasks, d \in 1..MaxTasks, op \in {"add", "remove"} :
          ManageDependencies(NameP, t, op, d)
    \/ UnknownTool(NameP)

SpecCall == Init /\ [][NextCall]_vars

-----------------------------------------------------------------------------
\* ToolRegistry.  tools is the Map from name to tool; a tool is [name, object],
\* object telling apart two tools of one name.

MaxToolObjects == 2  \* tool objects of one name

\* ToolRegistry.has
RegistryHas(tools, name) == name \in DOMAIN tools

\* ToolRegistry.get: <<>> for undefined
RegistryGet(tools, name) == IF name \in DOMAIN tools THEN <<tools[name]>> ELSE <<>>

\* ToolRegistry.count
RegistryCount(tools) == Cardinality(DOMAIN tools)

\* A register that replaces the tool of the same name
RegistryRegister_Replace(tools, tool) ==
    [threw |-> FALSE,
     tools |-> [n \in DOMAIN tools \cup {tool.name} |->
                   IF n = tool.name THEN tool ELSE tools[n]]]

\* ToolRegistry.register
RegistryRegister(tools, tool) ==
    IF RegistryHas(tools, tool.name) THEN [threw |-> TRUE, tools |-> tools]
    ELSE [threw |-> FALSE,
          tools |-> [n \in DOMAIN tools \cup {tool.name} |->
                        IF n = tool.name THEN tool ELSE tools[n]]]

\* ToolRegistry.unregister: what Map.delete returns and the map afterwards
RegistryUnregister(tools, name) ==
    [returned |-> name \in DOMAIN tools,
     tools |-> [n \in DOMAIN tools \ {name} |-> tools[n]]]

ToolNames == {"a", "b", "c"}
ToolObjects == [name : ToolNames, object : 1..MaxToolObjects]

Register(tool) ==
    LET r == RegistryRegister(registry.tools, tool)
    IN /\ registry' = [tools |-> r.tools,
                       last |-> [op |-> "register", name |-> tool.name,
                                 tool |-> <<tool>>, threw |-> r.threw]]
       /\ UNCHANGED <<projects, activeProject, files, clock, last, issued, race,
                      adapter, storeVars, sseVars>>

Unregister(name) ==
    LET r == RegistryUnregister(registry.tools, name)
    IN /\ registry' = [tools |-> r.tools,
                       last |-> [op |-> "unregister", name |-> name,
                                 tool |-> <<>>, threw |-> FALSE]]
       /\ UNCHANGED <<projects, activeProject, files, clock, last, issued, race,
                      adapter, storeVars, sseVars>>

\* The registry specification: tools are registered and unregistered.
NextRegistry ==
    \/ \E tool \in ToolObjects : Register(tool)
    \/ \E name \in ToolNames : Unregister(name)

SpecRegistry == Init /\ [][NextRegistry]_vars

-----------------------------------------------------------------------------
\* add-task calls in flight together.  execute runs to its first await, where the
\* store's get has read the project; it resumes with what it read, validates,
\* and the store's set writes the project back; no lock is held in between.
\* race.flight maps a caller to what its call read, race.returned lists the
\* results of the calls that returned, race.overlapped tells whether a call has
\* ever started while another was suspended.

MaxInFlight == 2     \* add-task calls in flight together
MaxCalls == 3        \* add-task calls made in one behaviour

Callers == 1..MaxInFlight

\* The store's set refuses an existing key
WriteBack_NoOverwrite(store, projectKey, r) ==
    IF r.ok /\ projectKey \notin DOMAIN store
    THEN StoreSetProject(store, projectKey, r.store[projectKey])
    ELSE store

\* The set at the end of add-task: the project the call has built replaces the
\* stored one
WriteBack(store, projectKey, r) ==
    IF r.ok THEN StoreSetProject(store, projectKey, r.store[projectKey]) ELSE store

\* add-task up to its first await: the project is read
AddTaskStart(c, name, deps) ==
    /\ c \notin DOMAIN race.flight
    /\ Len(race.returned) + Cardinality(DOMAIN race.flight) < MaxCalls
    /\ RoomFor(name, 1)
    /\ race' = [race EXCEPT
                   !.flight = [k \in DOMAIN race.flight \cup {c} |->
                                  IF k = c
                                  THEN [name |-> name, deps |-> deps,
                                        store |-> projects]
                                  ELSE race.flight[k]],
                   !.overlapped = @ \/ race.flight # <<>>]
    /\ UNCHANGED <<projects, activeProject, files, clock, last, issued, registry,
                   adapter, storeVars, sseVars>>

\* add-task from its first await to its return
AddTaskResume(c) ==
    /\ c \in DOMAIN race.flight
    /\ LET call == race.flight[c]
           projectKey == normalizeProjectKey(call.name)
           r == AddTaskExec(call.store, activeProject, call.name, TitleA, Undefined,
                            "medium", call.deps, 0, clock)
           created == CreatedIds(call.store, projectKey, r)
       IN /\ projects' = WriteBack(projects, projectKey, r)
          /\ last' = [tool |-> "add-task", name |-> call.name, ok |-> r.ok,
                      err |-> r.err,
                      meta |-> r.meta, key |-> projectKey, created |-> created,
                      report |-> NoRecommendation]
          /\ issued' = Issue(issued, projectKey, r, created)
          /\ race' = [race EXCEPT
                         !.flight = [k \in DOMAIN race.flight \ {c} |->
                                        race.flight[k]],
                         !.returned = Append(@, [ok |-> r.ok, created |-> created])]
    /\ UNCHANGED <<activeProject, files, clock, registry, adapter, storeVars,
                   sseVars>>

\* The race specification: add-task calls on one project, awaited one after the
\* other or issued while another is suspended.
NextRace ==
    \/ Stored(NameP) = <<>> /\ CreateProject(NameP)
    \/ \E c \in Callers, deps \in {<<>>, <<1>>} : AddTaskStart(c, NameP, deps)
    \/ \E c \in Callers : AddTaskResume(c)

SpecRace == Init /\ [][NextRace]_vars

-----------------------------------------------------------------------------
\* next-task: the ready set and the recommendation.

\* A ready set that takes a cancelled dependency for a completed one
getReadyTasks_FinalCompletes(project) ==
    LET completedTaskIds ==
            {project.tasks[i].id : i \in {j \in DOMAIN project.tasks :
                                             project.tasks[j].status \in FINAL_STATUSES}}
    IN SelectSeq(project.tasks,
           LAMBDA task :
              /\ task.status # "done" /\ task.status # "cancelled"
              /\ \A k \in DOMAIN task.dependencies :
                    task.dependencies[k] \in completedTaskIds)

\* getReadyTasks
getReadyTasks(project) ==
    LET completedTaskIds ==
            {project.tasks[i].id : i \in {j \in DOMAIN project.tasks :
                                             project.tasks[j].status = "done"}}
    IN SelectSeq(project.tasks,
           LAMBDA task :
              /\ task.status # "done" /\ task.status # "cancelled"
              /\ \A k \in DOMAIN task.dependencies :
                    task.dependencies[k] \in completedTaskIds)

\* priorityOrder of getNextTask's comparator
priorityOrder(priority) ==
    CASE priority = "high" -> 3
      [] priority = "medium" -> 2
      [] priority = "low" -> 1

\* A comparator that ignores the priority
CompareAvailable_IdOnly(a, b) == a.id - b.id

\* The comparator given to availableTasks.sort
CompareAvailable(a, b) ==
    LET priorityDiff == priorityOrder(b.priority) - priorityOrder(a.priority)
    IN IF priorityDiff # 0 THEN priorityDiff ELSE a.id - b.id

RECURSIVE InsertAvailable(_, _)
InsertAvailable(sorted, x) ==
    IF sorted = <<>> THEN <<x>>
    ELSE IF CompareAvailable(x, sorted[Len(sorted)]) >= 0 THEN Append(sorted, x)
    ELSE Append(InsertAvailable(SubSeq(sorted, 1, Len(sorted) - 1), x),
                sorted[Len(sorted)])

RECURSIVE SortAvailable(_)
SortAvailable(s) ==
    IF s = <<>> THEN <<>>
    ELSE InsertAvailable(SortAvailable(SubSeq(s, 1, Len(s) - 1)), s[Len(s)])

\* getNextTask: <<>> for null, else <<task>>
getNextTask(project) ==
    LET readyTasks == getReadyTasks(project)
        availableTasks == SelectSeq(readyTasks, LAMBDA task : task.status = "pending")
    IN IF readyTasks = <<>> THEN <<>>
       ELSE IF availableTasks = <<>> THEN <<>>
       ELSE <<SortAvailable(availableTasks)[1]>>

\* renderBlockedTasksCompact: the tasks listed as waiting, each with the
\* dependencies it is said to wait for
blockedTasks(project) ==
    LET notDone(depId) ==
            \/ findTaskById(project, depId) = 0
            \/ project.tasks[findTaskById(project, depId)].status # "done"
    IN [i \in {j \in DOMAIN project.tasks :
                 /\ project.tasks[j].status # "done"
                 /\ project.tasks[j].status # "cancelled"
                 /\ \E k \in DOMAIN project.tasks[j].dependencies :
                       notDone(project.tasks[j].dependencies[k])} |->
          {depId \in Range(project.tasks[i].dependencies) : notDone(depId)}]

\* TaskManagerNextTaskTool.execute: the metadata of the result (nextTask: <<>> for
\* null or <<id>>; readyTasks: the ids counted) and the tasks the text lists as
\* waiting; the blocked list is rendered only with a recommendation.
NextTaskExec(store, active, name) ==
    LET projectKey == normalizeProjectKey(name)
        projectResult == StoreGetProject(store, projectKey)
    IN
    IF name = <<>> THEN [r |-> Failed("invalid-input", store, active), out |-> NoRecommendation]
    ELSE IF ~projectResult.success \/ projectResult.result = "undefined"
    THEN [r |-> Failed("project-not-found", store, active), out |-> NoRecommendation]
    ELSE
    LET project == projectResult.value[1]
        nextTask == getNextTask(project)
        readyTasks == getReadyTasks(project)
        ready == {readyTasks[i].id : i \in DOMAIN readyTasks}
    IN IF nextTask = <<>>
       THEN [r |-> SucceededWith(<<"no-recommendation">>, store, active),
             out |-> [nextTask |-> <<>>, readyTasks |-> ready, waiting |-> <<>>]]
       ELSE [r |-> SucceededWith(<<"recommendation">>, store, active),
             out |-> [nextTask |-> <<nextTask[1].id>>, readyTasks |-> ready,
                      waiting |-> [i \in DOMAIN blockedTasks(project) |->
                                      [id |-> project.tasks[i].id,
                                       for |-> blockedTasks(project)[i]]]]]

\* next-task reads the project and writes nothing; what it reports is kept in
\* last.report.
NextTask(name) ==
    LET e == NextTaskExec(projects, activeProject, name)
    IN /\ ApplyReport("next-task", name, e.r, e.out)
       /\ UNCHANGED <<files, clock, storeVars, sseVars>>

\* Inputs of the ready specification
Priorities == {"high", "medium", "low"}

\* The ready specification: tasks of three priorities depend on one another, are
\* started, completed and cancelled, and next-task is asked.
NextReady ==
    \/ Stored(NameP) = <<>> /\ CreateProject(NameP)
    \/ \E priority \in Priorities, deps \in {<<>>, <<1>>, <<2>>} :
          AddTask(NameP, Undefined, priority, deps, 0)
    \/ \E taskId \in {<<1>>, <<2>>, <<3>>},
          status \in {"in-progress", "done", "cancelled"} :
          UpdateTask(NameP, taskId, status, NoteWip)
    \/ NextTask(NameP)

SpecReady == Init /\ [][NextReady]_vars

-----------------------------------------------------------------------------
\* The memory store: MemoryStoreManager and the MemoryStoreTool in front of it.
\* stores maps an isolated namespace to its data, a map from normalized key to
\* entry [value, created, ttl]; ttl 0 is an absent ttl.  A stored value carries the
\* session and the caller's namespace it was written under.

MsPerSecond == 1000

\* Date.now() at the given clock reading
DateNow(now) == now * MsPerSecond

\* MemoryStoreManager.normalizeKey
normalizeKey(key) == TrimOneDot(CollapseDots(Filter(ToLowerCase(key), KeyChars)))

\* the regular expression matchPattern builds, as a sequence of pieces: a
\* character for itself, "any" for an unescaped dot, "nodots" for [^.]*.  The
\* second replacement also rewrites the star of the ".*" the first one produced.
RECURSIVE PatternPieces(_)
PatternPieces(pattern) ==
    IF pattern = <<>> THEN <<>>
    ELSE IF Len(pattern) >= 2 /\ pattern[1] = "*" /\ pattern[2] = "*"
    THEN <<"any", "nodots">> \o PatternPieces(SubSeq(pattern, 3, Len(pattern)))
    ELSE IF pattern[1] = "*" THEN <<"nodots">> \o PatternPieces(Tail(pattern))
    ELSE <<pattern[1]>> \o PatternPieces(Tail(pattern))

\* RegExp.test of ^pieces$ on key
RECURSIVE RegexTest(_, _)
RegexTest(pieces, key) ==
    IF pieces = <<>> THEN key = <<>>
    ELSE IF pieces[1] = "nodots"
    THEN \E n \in 0..Len(key) :
            /\ \A i \in 1..n : key[i] # "."
            /\ RegexTest(Tail(pieces), SubSeq(key, n + 1, Len(key)))
    ELSE IF key = <<>> THEN FALSE
    ELSE IF pieces[1] = "any" THEN RegexTest(Tail(pieces), Tail(key))
    ELSE pieces[1] = key[1] /\ RegexTest(Tail(pieces), Tail(key))

\* a run of three, five, ... stars leaves a star behind the pieces of its pairs,
\* a quantifier on a quantifier: new RegExp throws
InvalidRegex(pattern) ==
    \E i \in DOMAIN pattern : \E n \in {m \in 3..Len(pattern) : m % 2 = 1} :
        /\ i + n - 1 <= Len(pattern)
        /\ \A j \in i..(i + n - 1) : pattern[j] = "*"
        /\ (i > 1 => pattern[i - 1] # "*")
        /\ (i + n <= Len(pattern) => pattern[i + n] # "*")

\* MemoryStoreManager.matchPattern
matchPattern(key, pattern) ==
    IF pattern = <<"*">> \/ pattern = <<"*", "*">> THEN TRUE
    ELSE IF pattern = key THEN TRUE
    ELSE IF InvalidRegex(pattern) THEN key = pattern
    ELSE RegexTest(PatternPieces(pattern), key)

\* An expiry counted from the epoch instead of the entry's creation
isExpired_FromEpoch(entry, now) ==
    IF entry.ttl = 0 THEN FALSE
    ELSE DateNow(now) > entry.ttl

\* MemoryStoreManager.isExpired
isExpired(entry, now) ==
    IF entry.ttl = 0 THEN FALSE
    ELSE DateNow(now) > DateNow(entry.created) + entry.ttl

\* getOrCreateStore: the namespace exists afterwards
getOrCreateStore(st, namespace) ==
    IF namespace \in DOMAIN st THEN st
    ELSE [n \in DOMAIN st \cup {namespace} |-> IF n = namespace THEN <<>> ELSE st[n]]

\* Map.prototype.set on the data of one store
DataSet(data, key, entry) ==
    [k \in DOMAIN data \cup {key} |-> IF k = key THEN entry ELSE data[k]]

\* Map.prototype.delete on the data of one store
DataDelete(data, keys) == [k \in DOMAIN data \ keys |-> data[k]]

ExpiredKeys(data, now) == {k \in DOMAIN data : isExpired(data[k], now)}

\* MemoryStoreManager.set; err "" when nothing is thrown
ManagerSet(st, namespace, key, value, overwrite, ttl, now) ==
    LET st1 == getOrCreateStore(st, namespace)
        normalizedKey == normalizeKey(key)
    IN IF normalizedKey = <<>> THEN [err |-> "invalid-key", st |-> st1]
       ELSE IF ~overwrite /\ normalizedKey \in DOMAIN st1[namespace]
       THEN [err |-> "key-exists", st |-> st1]
       ELSE [err |-> "",
             st |-> [st1 EXCEPT ![namespace] =
                        DataSet(@, normalizedKey,
                                [value |-> value, created |-> now, ttl |-> ttl])]]

\* MemoryStoreManager.get: the values returned (none for undefined) and the store
\* after the removal of an expired entry
ManagerGet(st, namespace, key, now) ==
    LET normalizedKey == normalizeKey(key)
    IN IF namespace \notin DOMAIN st THEN [values |-> {}, st |-> st]
       ELSE IF normalizedKey \notin DOMAIN st[namespace]
       THEN [values |-> {}, st |-> st]
       ELSE IF isExpired(st[namespace][normalizedKey], now)
       THEN [values |-> {},
             st |-> [st EXCEPT ![namespace] = DataDelete(@, {normalizedKey})]]
       ELSE [values |-> {st[namespace][normalizedKey].value}, st |-> st]

\* MemoryStoreManager.delete
ManagerDelete(st, namespace, key) ==
    IF namespace \notin DOMAIN st THEN [deleted |-> FALSE, st |-> st]
    ELSE [deleted |-> normalizeKey(key) \in DOMAIN st[namespace],
          st |-> [st EXCEPT ![namespace] = DataDelete(@, {normalizeKey(key)})]]

\* MemoryStoreManager.query: results as key -> value
ManagerQuery(st, namespace, pattern, now) ==
    IF namespace \notin DOMAIN st THEN [results |-> <<>>, st |-> st]
    ELSE LET live == DataDelete(st[namespace], ExpiredKeys(st[namespace], now))
             hits == {k \in DOMAIN live : matchPattern(k, pattern)}
         IN [results |-> [k \in hits |-> live[k].value],
             st |-> [st EXCEPT ![namespace] = live]]

\* MemoryStoreManager.list
ManagerList(st, namespace, now) == ManagerQuery(st, namespace, <<"*">>, now)

\* MemoryStoreManager.clear
ManagerClear(st, namespace) ==
    IF namespace \in DOMAIN st THEN [st EXCEPT ![namespace] = <<>>] ELSE st

\* MemoryStoreManager.exportData(namespace).data: key -> entry, expired left out
ManagerExport(st, namespace, now) ==
    IF namespace \notin DOMAIN st THEN <<>>
    ELSE DataDelete(st[namespace], ExpiredKeys(st[namespace], now))

\* MemoryStoreManager.importData: the keys are taken as given
RECURSIVE ImportEntries(_, _, _)
ImportEntries(data, importData, keys) ==
    IF keys = {} THEN data
    ELSE LET k == CHOOSE x \in keys : TRUE
         IN ImportEntries(DataSet(data, k, importData[k]), importData, keys \ {k})

ManagerImport(st, namespace, importData) ==
    LET st1 == getOrCreateStore(st, namespace)
    IN [st1 EXCEPT ![namespace] = ImportEntries(@, importData, DOMAIN importData)]

\* An isolated namespace that every session shares
IsolatedNamespace_Shared(sessionId, namespace) == namespace

\* `${sessionId}.${namespace}`, with 'anonymous' for an empty session id
IsolatedNamespace(sessionId, namespace) ==
    (IF sessionId = <<>> THEN <<"a","n","o","n","y","m","o","u","s">> ELSE sessionId)
        \o <<".">> \o namespace

Values(f) == {f[k] : k \in DOMAIN f}

StoreFailed(kind, st) == [ok |-> FALSE, err |-> kind, values |-> {}, st |-> st]
StoreOk(values, st) == [ok |-> TRUE, err |-> "", values |-> values, st |-> st]

\* MemoryStoreTool.execute on arguments a = [operation, namespace, key, value,
\* pattern, ttl, overwrite]; ttl in seconds, 0 when absent; the value of an import
\* is <<>> when absent and <<data>> otherwise; values are the stored values the
\* result text shows.  info reports counts only; dump, which writes the export of
\* the namespace to a file, is left out.
MemoryStoreExec(st, sessionId, a, now) ==
    LET isolatedNamespace == IsolatedNamespace(sessionId, a.namespace)
    IN CASE a.operation = "set" ->
              IF a.key = <<>> THEN StoreFailed("key-required", st)
              ELSE LET r == ManagerSet(st, isolatedNamespace, a.key, a.value,
                                       a.overwrite,
                                       IF a.ttl # 0 THEN a.ttl * MsPerSecond ELSE 0,
                                       now)
                   IN IF r.err # "" THEN StoreFailed(r.err, r.st)
                      ELSE StoreOk({}, r.st)
         [] a.operation = "get" ->
              IF a.key = <<>> THEN StoreFailed("key-required", st)
              ELSE LET r == ManagerGet(st, isolatedNamespace, a.key, now)
                   IN StoreOk(r.values, r.st)
         [] a.operation = "delete" ->
              IF a.key = <<>> THEN StoreFailed("key-required", st)
              ELSE StoreOk({}, ManagerDelete(st, isolatedNamespace, a.key).st)
         [] a.operation = "query" ->
              IF a.pattern = <<>> THEN StoreFailed("pattern-required", st)
              ELSE LET r == ManagerQuery(st, isolatedNamespace, a.pattern, now)
                   IN StoreOk(Values(r.results), r.st)
         [] a.operation = "list" ->
              LET r == ManagerList(st, isolatedNamespace, now)
              IN StoreOk(Values(r.results), r.st)
         [] a.operation = "clear" ->
              StoreOk({}, ManagerClear(st, isolatedNamespace))
         [] a.operation = "info" -> StoreOk({}, st)
         [] a.operation = "export" ->
              LET data == ManagerExport(st, isolatedNamespace, now)
              IN StoreOk({data[k].value : k \in DOMAIN data}, st)
         [] a.operation = "import" ->
              IF a.value = <<>> THEN StoreFailed("data-required", st)
              ELSE StoreOk({}, ManagerImport(st, isolatedNamespace, a.value[1]))
         [] OTHER -> StoreFailed("unknown-operation", st)

\* Inputs of the store tool.  The session ids stand for ids the server derives
\* from a client-supplied identifier, which may hold a dot; with the namespaces
\* below two different pairs meet in the isolated namespace a.b.c.

SessionA == <<"a">>
SessionAB == <<"a", ".", "b">>
Sessions == {SessionA, SessionAB}

NamespaceC == <<"c">>
NamespaceBC == <<"b", ".", "c">>
Namespaces == {NamespaceC, NamespaceBC}

KeyK == <<"k">>
StoreKeys == {KeyK, <<"K">>}

Patterns == {<<"*">>, KeyK, <<"k", "*">>, <<"*", "*", "k">>}

\* the value a session writes under a namespace
ValueOf(sessionId, namespace) == [by |-> sessionId, ns |-> namespace]

StoreArgs(operation, namespace, key, value, pattern) ==
    [operation |-> operation, namespace |-> namespace, key |-> key,
     value |-> value, pattern |-> pattern, ttl |-> 0, overwrite |-> TRUE]

\* an export-shaped object with one entry under a key written in upper case
ImportData(sessionId, namespace) ==
    [k \in {<<"K">>} |->
        [value |-> ValueOf(sessionId, namespace), created |-> 0, ttl |-> 0]]

StoreCall(sessionId, a) ==
    LET r == MemoryStoreExec(stores, sessionId, a, clock)
    IN /\ stores' = r.st
       /\ storeLast' = [operation |-> a.operation, sessionId |-> sessionId,
                        namespace |-> a.namespace, ok |-> r.ok,
                        values |-> r.values]

StoreSet(sessionId, namespace, key) ==
    /\ StoreCall(sessionId,
                 StoreArgs("set", namespace, key, ValueOf(sessionId, namespace), <<>>))
    /\ UNCHANGED <<taskVars, sseVars>>

StoreGet(sessionId, namespace, key) ==
    /\ StoreCall(sessionId, StoreArgs("get", namespace, key, <<>>, <<>>))
    /\ UNCHANGED <<taskVars, sseVars>>

StoreDelete(sessionId, namespace, key) ==
    /\ StoreCall(sessionId, StoreArgs("delete", namespace, key, <<>>, <<>>))
    /\ UNCHANGED <<taskVars, sseVars>>

StoreQuery(sessionId, namespace, pattern) ==
    /\ StoreCall(sessionId, StoreArgs("query", namespace, <<>>, <<>>, pattern))
    /\ UNCHANGED <<taskVars, sseVars>>

StoreList(sessionId, namespace) ==
    /\ StoreCall(sessionId, StoreArgs("list", namespace, <<>>, <<>>, <<>>))
    /\ UNCHANGED <<taskVars, sseVars>>

StoreClear(sessionId, namespace) ==
    /\ StoreCall(sessionId, StoreArgs("clear", namespace, <<>>, <<>>, <<>>))
    /\ UNCHANGED <<taskVars, sseVars>>

StoreExport(sessionId, namespace) ==
    /\ StoreCall(sessionId, StoreArgs("export", namespace, <<>>, <<>>, <<>>))
    /\ UNCHANGED <<taskVars, sseVars>>

StoreImport(sessionId, namespace) ==
    /\ StoreCall(sessionId,
                 StoreArgs("import", namespace, <<>>,
                           <<ImportData(sessionId, namespace)>>, <<>>))
    /\ UNCHANGED <<taskVars, sseVars>>

\* The store specification: two sessions call the store tool in any order.
NextStore ==
    \E sessionId \in Sessions, namespace \in Namespaces :
        \/ \E key \in StoreKeys : StoreSet(sessionId, namespace, key)
        \/ \E key \in StoreKeys : StoreGet(sessionId, namespace, key)
        \/ \E key \in StoreKeys : StoreDelete(sessionId, namespace, key)
        \/ \E pattern \in Patterns : StoreQuery(sessionId, namespace, pattern)
        \/ StoreList(sessionId, namespace)
        \/ StoreClear(sessionId, namespace)
        \/ StoreExport(sessionId, namespace)
        \/ StoreImport(sessionId, namespace)

SpecStore == Init /\ [][NextStore]_vars

\* the value set under a key: it names the key
ValueAt(sessionId, namespace, key) ==
    [by |-> sessionId, ns |-> namespace, key |-> key]

\* set with a ttl, in seconds as the tool takes it
StoreSetTtl(sessionId, namespace, key, ttl) ==
    /\ StoreCall(sessionId,
                 [StoreArgs("set", namespace, key,
                            ValueAt(sessionId, namespace, key), <<>>)
                     EXCEPT !.ttl = ttl])
    /\ UNCHANGED <<taskVars, sseVars>>

KeyJ == <<"j">>
TtlKeys == {KeyK, KeyJ}

\* the ttl arguments: absent, one second
Ttls == {0, 1}

\* The expiry specification: one session sets two keys with and without a ttl
\* and reads them back while time passes.
NextTtl ==
    \/ \E key \in TtlKeys, ttl \in Ttls : StoreSetTtl(SessionA, NamespaceC, key, ttl)
    \/ \E key \in TtlKeys : StoreGet(SessionA, NamespaceC, key)
    \/ \E pattern \in {KeyK, <<"*">>} : StoreQuery(SessionA, NamespaceC, pattern)
    \/ StoreList(SessionA, NamespaceC)
    \/ StoreExport(SessionA, NamespaceC)
    \/ Tick

SpecTtl == Init /\ [][NextTtl]_vars

\* MemoryStoreManager.cleanupExpiredEntries: every namespace loses its expired
\* entries
cleanupExpiredEntries(st, now) ==
    [n \in DOMAIN st |-> DataDelete(st[n], ExpiredKeys(st[n], now))]

\* The interval timer of the manager fires
CleanupTimer ==
    /\ stores' = cleanupExpiredEntries(stores, clock)
    /\ UNCHANGED <<storeLast, taskVars, sseVars>>

\* The sweep specification: the expiry specification with the cleanup timer
\* firing between the calls.
NextSweep ==
    \/ NextTtl
    \/ CleanupTimer

SpecSweep == Init /\ [][NextSweep]_vars

\* dotted keys and the patterns asked of them
KeyA == <<"a">>
KeyAB == <<"a", ".", "b">>
KeyABC == <<"a", ".", "b", ".", "c">>
QueryKeys == {KeyA, KeyAB, KeyABC}

QueryPatterns ==
    { <<"*">>, <<"*", "*">>, KeyAB,
      <<"a", "*">>, <<"a", ".", "*">>, <<"a", ".", "*", "*">>,
      <<"*", ".", "b">>, <<"*", "*", ".", "c">>, <<"*", "*", "*">>,
      <<"*", "*", "*", "*">> }

\* The query specification: one session sets dotted keys, with and without a
\* ttl, and queries them by pattern while time passes.
NextQuery ==
    \/ \E key \in QueryKeys, ttl \in Ttls : StoreSetTtl(SessionA, NamespaceC, key, ttl)
    \/ \E pattern \in QueryPatterns : StoreQuery(SessionA, NamespaceC, pattern)
    \/ Tick

SpecQuery == Init /\ [][NextQuery]_vars

-----------------------------------------------------------------------------
\* Startup.  Loading registry.ts registers the tools one after the other on the
\* global toolRegistry; the server then answers tools/list and tools/call from it.

MemoryStoreName == "chonky-memory-store"

\* The names of the tools registry.ts registers, in its order
RegisteredAtStartup ==
    <<"chonky-task-manager-create-project",
      "chonky-task-manager-add-task",
      "chonky-task-manager-batch-add-tasks",
      "chonky-task-manager-list-tasks",
      "chonky-task-manager-update-task",
      "chonky-task-manager-next-task",
      "chonky-task-manager-manage-dependencies",
      "chonky-task-manager-get-task",
      "chonky-task-manager-import-export",
      "chonky-task-manager-import-folder">>

\* The next toolRegistry.register(new ...Tool()) statement of the module
LoadRegistry ==
    \E i \in DOMAIN RegisteredAtStartup :
       /\ RegistryCount(registry.tools) = i - 1
       /\ Register([name |-> RegisteredAtStartup[i], object |-> 1])

\* Every registration statement has run
Started == RegistryCount(registry.tools) = Len(RegisteredAtStartup)

\* The ListToolsRequestSchema handler: the names of toolRegistry.getAll()
ListTools(tools) == DOMAIN tools

\* The lookup of the CallToolRequestSchema handler
Dispatch(tools, toolName) ==
    IF RegistryGet(tools, toolName) = <<>> THEN "tool-not-found" ELSE "execute"

\* The names called: three task tools, the store and a name no tool has
CallNames ==
    {"chonky-task-manager-create-project", "chonky-task-manager-add-task",
     "chonky-task-manager-manage-dependencies", MemoryStoreName,
     "non-existent-tool"}

\* tools/call naming toolName
CallTool(toolName) ==
    /\ Started
    /\ IF Dispatch(registry.tools, toolName) = "tool-not-found"
       THEN UnknownTool(NameP)
       ELSE IF toolName = "chonky-task-manager-create-project"
       THEN CreateProject(NameP)
       ELSE IF toolName = "chonky-task-manager-add-task"
       THEN \E deps \in {<<>>, <<1>>}, parent \in {0, 1} :
               AddTask(NameP, Undefined, "medium", deps, parent)
       ELSE IF toolName = "chonky-task-manager-manage-dependencies"
       THEN \E t \in TaskIds, d \in TaskIds, op \in {"add", "remove"} :
               ManageDependencies(NameP, t, op, d)
       ELSE /\ toolName = MemoryStoreName
            /\ StoreSet(SessionA, NamespaceC, KeyK)

NextStartup ==
    \/ LoadRegistry
    \/ \E toolName \in CallNames : CallTool(toolName)

SpecStartup == Init /\ [][NextStartup]_vars

-----------------------------------------------------------------------------
\* The editor adapter.  A wrapper holds a tool name and a tool; what the tool's
\* execute does on a call is an outcome: it throws a value (an Error with a
\* message, or a string) or returns a value (undefined, or an object with or
\* without a result text).  A text is the sequence of its pieces; an answer is
\* [propagated, text, json], json holding the object rendered when there is one.

Thrown(isError, message) ==
    [threw |-> TRUE, isError |-> isError, message |-> message, returned |-> <<>>]

\* returned: <<>> for undefined, else <<object>>; the object's result is Undefined
\* when it has none
Returned(returned) ==
    [threw |-> FALSE, isError |-> FALSE, message |-> "", returned |-> returned]

ToolResult(success, result) == [success |-> success, result |-> result]

Outcomes ==
    {Thrown(TRUE, "Tool error"), Thrown(TRUE, "Invalid input: Required"),
     Thrown(TRUE, ""), Thrown(FALSE, "boom"),
     Returned(<<>>),
     Returned(<<ToolResult(TRUE, Undefined)>>),
     Returned(<<ToolResult(TRUE, <<"test result">>)>>),
     Returned(<<ToolResult(TRUE, <<>>)>>),
     Returned(<<ToolResult(FALSE, <<>>)>>),
     Returned(<<ToolResult(FALSE, <<"Error: ", "Project not found">>)>>)}

\* The message of the TypeError raised by reading .result of undefined
ReadOfUndefined == "Cannot read properties of undefined (reading 'result')"

\* result.result || JSON.stringify(result, null, 2): the text, or the JSON
\* rendering of the whole result when the text is undefined or empty
TextOrJson(result) ==
    IF result.result # Undefined /\ result.result # <<>>
    THEN [propagated |-> FALSE, text |-> result.result, json |-> <<>>]
    ELSE [propagated |-> FALSE, text |-> <<>>, json |-> <<result>>]

\* An invoke that lets what the tool throws pass
invoke_Rethrow(toolName, outcome) ==
    IF outcome.threw \/ outcome.returned = <<>>
    THEN [propagated |-> TRUE, text |-> <<>>, json |-> <<>>]
    ELSE TextOrJson(outcome.returned[1])

\* UniversalMCPToolWrapper.invoke: [propagated, text].  Everything runs inside
\* the try; the catch builds the text from error.message or String(error).
invoke(toolName, outcome) ==
    IF outcome.threw
    THEN [propagated |-> FALSE,
          text |-> <<"Error executing ", toolName, ": ", outcome.message>>,
          json |-> <<>>]
    ELSE IF outcome.returned = <<>>
    THEN [propagated |-> FALSE,
          text |-> <<"Error executing ", toolName, ": ", ReadOfUndefined>>,
          json |-> <<>>]
    ELSE TextOrJson(outcome.returned[1])

\* registerAllMCPTools: one wrapper per tool of the registry
RegisterAllMCPTools ==
    /\ Started
    /\ adapter.wrappers = {}
    /\ adapter' = [adapter EXCEPT !.wrappers = ListTools(registry.tools)]
    /\ UNCHANGED <<projects, activeProject, files, clock, last, issued, race,
                   registry, storeVars, sseVars>>

\* The editor invokes the wrapper of toolName, whose tool ends with outcome
Invoke(toolName, outcome) ==
    /\ toolName \in adapter.wrappers
    /\ adapter' = [adapter EXCEPT
                      !.last = [toolName |-> toolName, outcome |-> <<outcome>>,
                                answer |-> <<invoke(toolName, outcome)>>]]
    /\ UNCHANGED <<projects, activeProject, files, clock, last, issued, race,
                   registry, storeVars, sseVars>>

NextAdapter ==
    \/ LoadRegistry
    \/ RegisterAllMCPTools
    \/ \E toolName \in Range(RegisteredAtStartup), outcome \in Outcomes :
          Invoke(toolName, outcome)

SpecAdapter == Init /\ [][NextAdapter]_vars

-----------------------------------------------------------------------------
\* The protocol server on the SSE transport.

MaxConns == 2        \* connections ever established
MaxRequestId == 1    \* client identifiers a request can show

DigitChars == <<"1", "2", "3", "4", "5", "6", "7", "8", "9">>

\* transport.sessionId of the i-th connection: a fresh identifier
ConnId(i) == <<"u", DigitChars[i]>>
ConnIds == {ConnId(i) : i \in 1..MaxConns}

\* extractSessionId.  clientId is what request.id || request.meta?.clientId ||
\* request.meta?.sessionId evaluates to, 0 when that is undefined: whether the
\* handler's request object still carries such a field is the protocol library's
\* matter, so every outcome is allowed.  The result is the session id and the
\* field currentSessionId afterwards.
extractSessionId(clientId, current) ==
    IF clientId # 0
    THEN [sessionId |-> <<"c","l","i","e","n","t","_">> \o <<DigitChars[clientId]>>,
          current |-> current]
    ELSE IF current = <<>>
    THEN [sessionId |-> <<"s","e","s","s","i","o","n","_">>,
          current |-> <<"s","e","s","s","i","o","n","_">>]
    ELSE [sessionId |-> current, current |-> current]

\* GET /sse: a new transport is connected, its id becomes currentSessionId and it
\* is registered in activeTransports; the roots timer is armed when
\* clientSupportsRoots is true at that moment
SseConnect(c) ==
    /\ c \notin conns.used
    /\ conns' = [open |-> Append(conns.open, c), used |-> conns.used \cup {c}]
    /\ currentSessionId' = c
    /\ roots' = [roots EXCEPT
                    !.transport = <<c>>,
                    !.timers = IF roots.clientSupportsRoots THEN @ \cup {c} ELSE @]
    /\ UNCHANGED <<callLog, taskVars, storeVars>>

\* transport.onclose
SseClose(c) ==
    /\ c \in Range(conns.open)
    /\ conns' = [conns EXCEPT !.open = SelectSeq(@, LAMBDA x : x # c)]
    /\ UNCHANGED <<currentSessionId, callLog, roots, taskVars, storeVars>>

\* the transport a POST is dispatched to: the one named by the sessionId parameter
\* or header, the first open one when none is named (target <<>>)
PostTransport(target) ==
    IF target # <<>>
    THEN IF target \in Range(conns.open) THEN <<target>> ELSE <<>>
    ELSE IF conns.open # <<>> THEN <<conns.open[1]>> ELSE <<>>

\* POST /sse or /message carrying a tools/call that reaches the store on
\* namespace c, key k: the CallToolRequestSchema handler derives the session id
\* and executes the tool with it.  A set writes a value that names the connection.
SsePost(target, clientId, operation) ==
    LET transport == PostTransport(target)
    IN IF transport = <<>>
       THEN /\ callLog' = [NoPost EXCEPT !.status = 404]
            /\ UNCHANGED <<conns, currentSessionId, roots, taskVars, storeVars>>
       ELSE LET e == extractSessionId(clientId, currentSessionId)
                r == MemoryStoreExec(stores, e.sessionId,
                        StoreArgs(operation, NamespaceC, KeyK,
                                  ValueOf(transport[1], NamespaceC), <<>>),
                        clock)
            IN /\ currentSessionId' = e.current
               /\ stores' = r.st
               /\ callLog' = [status |-> 200, conn |-> transport[1],
                              clientId |-> clientId, sessionId |-> e.sessionId,
                              values |-> r.values]
               /\ UNCHANGED <<conns, roots, storeLast, taskVars>>

\* The SSE specification: connections open and close and post tool calls.
NextSSE ==
    \/ \E c \in ConnIds : SseConnect(c)
    \/ \E c \in ConnIds : SseClose(c)
    \/ \E target \in ConnIds \cup {<<>>}, clientId \in 0..MaxRequestId,
          operation \in {"set", "get"} :
          SsePost(target, clientId, operation)

SpecSSE == Init /\ [][NextSSE]_vars

-----------------------------------------------------------------------------
\* Client roots.  A client is named by its transport: the stdio transport or an
\* SSE connection.  roots.transport is the transport the protocol server was
\* connected to last, the one its requests leave on.

StdioId == <<"s","t","d","i","o","-","s","e","s","s","i","o","n">>

RootsClients == ConnIds \cup {StdioId}

\* The clients that are connected
Connected(c) == (c = StdioId /\ roots.stdio) \/ c \in Range(conns.open)

\* startStdio: the session id is fixed, the transport connected and the timer armed
StartStdio ==
    /\ ~roots.stdio
    /\ currentSessionId' = StdioId
    /\ roots' = [roots EXCEPT !.stdio = TRUE, !.transport = <<StdioId>>,
                              !.timers = @ \cup {StdioId}]
    /\ UNCHANGED <<conns, callLog, taskVars, storeVars>>

\* The InitializeRequestSchema handler, on the initialize request of client c
Initialize(c, advertises) ==
    /\ Connected(c)
    /\ c \notin roots.advertised \cup roots.declined
    /\ roots' = [roots EXCEPT
                    !.clientSupportsRoots = advertises,
                    !.advertised = IF advertises THEN @ \cup {c} ELSE @,
                    !.declined = IF advertises THEN @ ELSE @ \cup {c},
                    !.env = IF advertises THEN @ ELSE @ \cup {c},
                    !.workspace = IF advertises THEN @ ELSE "env"]
    /\ UNCHANGED <<conns, currentSessionId, callLog, taskVars, storeVars>>

\* requestRootsFromClient: [success, roots].  Nothing is sent when
\* clientSupportsRoots is false; otherwise roots/list leaves on the server's
\* transport, and the call succeeds when the client answers with a root
\* (answered).  A request on a closed connection fails.
requestRootsFromClient(r, answered) ==
    IF ~r.clientSupportsRoots THEN [success |-> FALSE, roots |-> r]
    ELSE IF r.transport = <<>> \/ ~Connected(r.transport[1])
    THEN [success |-> FALSE, roots |-> r]
    ELSE LET to == r.transport[1]
             asked == IF to \in r.advertised \cup r.declined
                      THEN [r EXCEPT !.sent = @ \cup {to}]
                      ELSE [r EXCEPT !.early = @ \cup {to}]
         IN [success |-> answered,
             roots |-> IF answered THEN [asked EXCEPT !.workspace = "roots"]
                       ELSE asked]

\* The 500 ms timer of startStdio or of the GET /sse handler fires: the roots are
\* requested, and the environment variable is used when that does not succeed
RootsTimer(c, answered) ==
    /\ c \in roots.timers
    /\ LET armed == [roots EXCEPT !.timers = @ \ {c}]
           q == requestRootsFromClient(armed, answered)
       IN roots' = IF q.success THEN q.roots
                   ELSE [q.roots EXCEPT !.workspace = "env"]
    /\ UNCHANGED <<conns, currentSessionId, callLog, taskVars, storeVars>>

\* The RootsListChangedNotificationSchema handler
RootsListChanged(c, answered) ==
    /\ Connected(c)
    /\ roots' = requestRootsFromClient(roots, answered).roots
    /\ UNCHANGED <<conns, currentSessionId, callLog, taskVars, storeVars>>

\* The roots specification: the server is started on stdio, on SSE or on both;
\* clients connect, initialize and close; an armed timer eventually fires.
NextRoots ==
    \/ StartStdio
    \/ \E c \in ConnIds : SseConnect(c)
    \/ \E c \in ConnIds : SseClose(c)
    \/ \E c \in RootsClients, advertises \in BOOLEAN : Initialize(c, advertises)
    \/ \E c \in RootsClients, answered \in BOOLEAN : RootsTimer(c, answered)
    \/ \E c \in RootsClients, answered \in BOOLEAN : RootsListChanged(c, answered)

SpecRoots ==
    /\ Init
    /\ [][NextRoots]_vars
    /\ \A c \in RootsClients : WF_vars(\E answered \in BOOLEAN : RootsTimer(c, answered))

-----------------------------------------------------------------------------
\* import-export.  files maps a path to the snapshot an export wrote there.

\* String.prototype.endsWith
EndsWith(s, suffix) ==
    /\ Len(suffix) <= Len(s)
    /\ SubSeq(s, Len(s) - Len(suffix) + 1, Len(s)) = suffix

PathF == <<"f", ".", "j", "s", "o", "n">>
PathTxt == <<"f", ".", "t", "x", "t">>

PortFailed(kind, store, active, fs) ==
    [ok |-> FALSE, err |-> kind, meta |-> <<>>, store |-> store, active |-> active,
     files |-> fs]

PortSucceeded(store, active, fs) ==
    [ok |-> TRUE, err |-> "", meta |-> <<>>, store |-> store, active |-> active,
     files |-> fs]

\* operation 'query' with the project's key as pattern and includeMetadata: the
\* entry under that key, as results[key], <<>> when the key is not stored
StoreQueryProject(store, projectKey) ==
    IF projectKey \in DOMAIN store THEN <<store[projectKey]>> ELSE <<>>

\* fs.writeFile
WriteFile(fs, filePath, content) ==
    [f \in DOMAIN fs \cup {filePath} |-> IF f = filePath THEN content ELSE fs[f]]

\* TaskManagerImportExportTool.exportProject
ExportProjectExec(store, active, fs, projectName, filePath, now) ==
    LET projectKey == normalizeProjectKey(projectName)
        entry == StoreQueryProject(store, projectKey)
    IN IF entry = <<>> THEN PortFailed("project-not-found", store, active, fs)
       ELSE PortSucceeded(store, active,
                WriteFile(fs, filePath,
                    [exportMetadata |-> [exportDate |-> now,
                                         originalProjectName |-> projectName,
                                         normalizedProjectKey |-> projectKey],
                     projectData |-> entry[1]]))

\* importProject's test: existingResult.success && existingResult.result
ProjectExists(existingResult) ==
    existingResult.success /\ Truthy(existingResult.result)

\* TaskManagerImportExportTool.importProject
ImportProjectExec(store, active, fs, projectName, filePath, now) ==
    LET projectKey == normalizeProjectKey(projectName)
        existingResult == StoreGetProject(store, projectKey)
    IN IF filePath \notin DOMAIN fs THEN PortFailed("file-not-found", store, active, fs)
       ELSE IF ProjectExists(existingResult)
       THEN PortFailed("already-exists", store, active, fs)
       ELSE PortSucceeded(
               StoreSetProject(store, projectKey,
                   [fs[filePath].projectData EXCEPT !.name = projectName,
                                                    !.updated = now]),
               <<projectName>>, fs)

\* TaskManagerImportExportTool.execute
ImportExportExec(store, active, fs, operation, projectName, filePath, now) ==
    IF projectName = <<>> \/ filePath = <<>>
    THEN PortFailed("invalid-input", store, active, fs)
    ELSE IF ~EndsWith(filePath, <<".", "j", "s", "o", "n">>)
    THEN PortFailed("not-json-path", store, active, fs)
    ELSE IF operation = "export"
    THEN ExportProjectExec(store, active, fs, projectName, filePath, now)
    ELSE ImportProjectExec(store, active, fs, projectName, filePath, now)

ExportProject(projectName, filePath) ==
    LET r == ImportExportExec(projects, activeProject, files, "export", projectName,
                              filePath, clock)
    IN /\ Apply("export", projectName, r)
       /\ files' = r.files
       /\ UNCHANGED <<clock, storeVars, sseVars>>

ImportProject(projectName, filePath) ==
    LET r == ImportExportExec(projects, activeProject, files, "import", projectName,
                              filePath, clock)
    IN /\ Apply("import", projectName, r)
       /\ files' = r.files
       /\ UNCHANGED <<clock, storeVars, sseVars>>

\* The import-export specification: a project is built while time passes, is
\* exported and imported.
NextPort ==
    \/ \E name \in {NameP, NameQ} : CreateProject(name)
    \/ \E deps \in {<<>>, <<1>>}, parentTaskId \in {0, 1} :
          AddTask(NameP, Undefined, "medium", deps, parentTaskId)
    \/ Tick
    \/ \E name \in {NameP, NameQ}, filePath \in {PathF, PathTxt} :
          ExportProject(name, filePath)
    \/ \E name \in {NameP, NameQ} : ImportProject(name, PathF)

SpecPort == Init /\ [][NextPort]_vars

-----------------------------------------------------------------------------
\* The dependency graph of a task list, defined without the code's search.

IdsOf(tasks) == {tasks[i].id : i \in DOMAIN tasks}

DirectDeps(tasks, id) ==
    UNION {Range(tasks[i].dependencies) : i \in {j \in DOMAIN tasks : tasks[j].id = id}}

RECURSIVE Closure(_, _)
Closure(tasks, S) ==
    LET T == S \cup UNION {DirectDeps(tasks, x) : x \in S}
    IN IF T = S THEN S ELSE Closure(tasks, T)

\* the ids reached from id along one or more dependency edges
ReachableFrom(tasks, id) == Closure(tasks, DirectDeps(tasks, id))

AllResolve(tasks) ==
    \A i \in DOMAIN tasks : Range(tasks[i].dependencies) \subseteq IdsOf(tasks)

Acyclic(tasks) ==
    \A i \in DOMAIN tasks : tasks[i].id \notin ReachableFrom(tasks, tasks[i].id)

KeyP == normalizeProjectKey(NameP)
HasP == KeyP \in DOMAIN projects
ProjectP == projects[KeyP]

\* C2: in every stored project every dependency id of every main task is the id of
\* a main task of that project, and no task reaches itself along dependency edges.
C2_DependenciesResolveAndAcyclic ==
    \A k \in DOMAIN projects :
        AllResolve(projects[k].tasks) /\ Acyclic(projects[k].tasks)

\* C2 witness: a stored project with three tasks, one of which reaches the two
\* others along dependency edges, after a successful manage-dependencies call.
C2_Witness ==
    /\ HasP
    /\ Len(ProjectP.tasks) = 3
    /\ \E i \in DOMAIN ProjectP.tasks :
          Cardinality(ReachableFrom(ProjectP.tasks, ProjectP.tasks[i].id)) = 2
    /\ last.tool = "manage-dependencies" /\ last.ok

\* The batch would leave an unresolved dependency id or a task on a cycle
BatchBad(project, items) ==
    LET created == BatchCreatedTasks(project, items, 0)
        all == project.tasks \o created
    IN \/ ~AllResolve(all)
       \/ \E i \in DOMAIN created : created[i].id \in ReachableFrom(all, created[i].id)

\* C5: batch-add-tasks is all-or-nothing.  A batch with an item whose dependency id
\* is neither in the project nor in the batch, or with an item on a dependency
\* cycle, fails and the stored project is as before; a successful batch of N items
\* appends N tasks with the ids nextId .. nextId + N - 1 and adds N to nextId.
C5_BatchAllOrNothing ==
    HasP =>
        \A items \in Batches :
            LET r == BatchAddTasksExec(projects, activeProject, NameP, items, clock)
                p == ProjectP
                q == r.store[KeyP]
                n == Len(p.tasks)
            IN /\ BatchBad(p, items) => ~r.ok
               /\ ~r.ok => r.store = projects
               /\ r.ok =>
                    /\ Len(q.tasks) = n + Len(items)
                    /\ SubSeq(q.tasks, 1, n) = p.tasks
                    /\ \A i \in DOMAIN items :
                          /\ q.tasks[n + i].id = p.nextId + i - 1
                          /\ q.tasks[n + i].dependencies = items[i].deps
                    /\ q.nextId = p.nextId + Len(items)

\* C5 witness: a batch was rejected by the cycle validation on a project that
\* holds tasks, and the project still holds exactly those.
C5_Witness ==
    /\ HasP
    /\ ProjectP.tasks # <<>>
    /\ last.tool = "batch-add-tasks" /\ ~last.ok /\ last.err = "dependency-validation"

\* C6: manage-dependencies add of d to t, both tasks of the project, fails and leaves
\* the stored project as it was when t = d or t is reachable from d; when the edge
\* closes no cycle and is not yet present it succeeds and appends d to t's list.
C6_AddDependencyRejectsCycles ==
    HasP =>
        \A t \in IdsOf(ProjectP.tasks), d \in IdsOf(ProjectP.tasks) :
            LET r == ManageDependenciesExec(projects, activeProject, NameP, t, "add",
                                            d, clock)
                p == ProjectP
                ti == findTaskById(p, t)
                closes == t = d \/ t \in ReachableFrom(p.tasks, d)
            IN /\ closes => ~r.ok /\ r.store = projects
               /\ (~closes /\ ~SeqIncludes(p.tasks[ti].dependencies, d)) =>
                    /\ r.ok
                    /\ r.store[KeyP].tasks[ti].dependencies
                          = Append(p.tasks[ti].dependencies, d)

\* C6 witness: an add was rejected as circular on a chain of three tasks.
C6_Witness ==
    /\ HasP
    /\ \E i \in DOMAIN ProjectP.tasks :
          Cardinality(ReachableFrom(ProjectP.tasks, ProjectP.tasks[i].id)) = 2
    /\ last.tool = "manage-dependencies" /\ ~last.ok
    /\ last.err = "circular-dependency"

\* C10: import-folder onto an existing project fails and changes nothing when
\* overwrite is false; a successful import with overwrite true leaves exactly the
\* tasks an import of the same folder into an empty store builds, numbered from 1,
\* with nextId one past their number.
C10_ImportFolderOverwrite ==
    HasP =>
        \A folder \in Folders, createProject \in BOOLEAN :
            LET no == ImportFolderExec(projects, activeProject, folder, Undefined,
                                       createProject, FALSE, clock)
                yes == ImportFolderExec(projects, activeProject, folder, Undefined,
                                        createProject, TRUE, clock)
                fresh == ImportFolderExec(<<>>, <<>>, folder, Undefined, TRUE, FALSE,
                                          clock)
                q == yes.store[KeyP]
            IN /\ ~no.ok /\ no.store = projects /\ no.active = activeProject
               /\ yes.ok =>
                    /\ fresh.ok
                    /\ q.tasks = fresh.store[KeyP].tasks
                    /\ q.nextId = Len(q.tasks) + 1
                    /\ \A i \in DOMAIN q.tasks : q.tasks[i].id = i

\* C10 witness: an existing project was overwritten by an import of two tasks.
C10_Witness ==
    /\ HasP
    /\ last.tool = "import-folder" /\ last.ok /\ last.meta = <<"overwritten">>
    /\ Len(ProjectP.tasks) = 2

-----------------------------------------------------------------------------
\* The completion gates of update-task, stated without the code's helpers.

FinalStatus(status) == status = "done" \/ status = "cancelled"

\* the successCriteria has a character other than white space
CriteriaSet(sc) == sc # Undefined /\ \E i \in DOMAIN sc : sc[i] \notin WhiteSpace

\* some keyword occurs in the note, letters compared without regard to case
ContainsKeyword(notes) ==
    \E k \in DOMAIN completionKeywords :
        \E offset \in 0..Len(notes) :
            /\ offset + Len(completionKeywords[k]) <= Len(notes)
            /\ \A j \in DOMAIN completionKeywords[k] :
                  LowerChar(notes[offset + j]) = completionKeywords[k][j]

NonFinalDependency(project, task) ==
    \E k \in DOMAIN task.dependencies :
        \E j \in DOMAIN project.tasks :
            /\ project.tasks[j].id = task.dependencies[k]
            /\ ~FinalStatus(project.tasks[j].status)

NonFinalSubtask(task) ==
    \E k \in DOMAIN task.subtasks : ~FinalStatus(task.subtasks[k].status)

\* C1: update-task to done on a main task that is not done fails and leaves the
\* stored project as it was while a dependency or an own subtask is neither done
\* nor cancelled; with all of them final and a note that passes the evidence gate
\* it succeeds and the task is done.
C1_DoneNeedsFinalDependenciesAndSubtasks ==
    HasP =>
        \A ti \in DOMAIN ProjectP.tasks, notes \in AllNotes \ {<<>>} :
            LET task == ProjectP.tasks[ti]
                r == UpdateTaskExec(projects, activeProject, NameP, <<task.id>>,
                                    "done", notes, clock)
                blocked == NonFinalDependency(ProjectP, task) \/ NonFinalSubtask(task)
                evidence == CriteriaSet(task.successCriteria) => ContainsKeyword(notes)
            IN task.status # "done" =>
                 /\ blocked => ~r.ok /\ r.store = projects
                 /\ (~blocked /\ evidence) =>
                        r.ok /\ r.store[KeyP].tasks[ti].status = "done"

\* C1 witness: marking task 1 done was refused because of a subtask, while the
\* task has one final and one non-final subtask.
C1_Witness ==
    /\ HasP
    /\ last.tool = "update-task" /\ ~last.ok /\ last.err = "incomplete-subtasks"
    /\ \E ti \in DOMAIN ProjectP.tasks :
          /\ Len(ProjectP.tasks[ti].subtasks) = 2
          /\ FinalStatus(ProjectP.tasks[ti].subtasks[1].status)
          /\ ~FinalStatus(ProjectP.tasks[ti].subtasks[2].status)

\* The store with the successCriteria of one task of project p replaced
WithCriteria(store, ti, sc) ==
    [store EXCEPT ![KeyP].tasks[ti].successCriteria = sc]

\* C3: marking a task that is not done as done fails without mutation when its
\* successCriteria is non-blank and the note holds none of the completion keywords
\* in any letter case; with a keyword in the note, or with no, empty or blank
\* successCriteria and any non-empty note, it succeeds once dependencies and
\* subtasks are final.
C3_CompletionEvidenceGate ==
    HasP =>
        \A ti \in DOMAIN ProjectP.tasks, sc \in AllCriteria, notes \in AllNotes :
            LET store == WithCriteria(projects, ti, sc)
                task == store[KeyP].tasks[ti]
                r == UpdateTaskExec(store, activeProject, NameP, <<task.id>>,
                                    "done", notes, clock)
                final == ~NonFinalDependency(store[KeyP], task)
                            /\ ~NonFinalSubtask(task)
            IN task.status # "done" =>
                 /\ (CriteriaSet(sc) /\ ~ContainsKeyword(notes)) =>
                        ~r.ok /\ r.store = store
                 /\ (CriteriaSet(sc) /\ ContainsKeyword(notes) /\ final) =>
                        r.ok /\ r.store[KeyP].tasks[ti].status = "done"
                 /\ (~CriteriaSet(sc) /\ notes # <<>> /\ final) =>
                        r.ok /\ r.store[KeyP].tasks[ti].status = "done"

\* C3 witness: a task with successCriteria was refused for want of evidence and
\* is still pending, while another task of the project was marked done.
C3_Witness ==
    /\ HasP
    /\ last.tool = "update-task" /\ ~last.ok /\ last.err = "completion-proof"
    /\ \E ti \in DOMAIN ProjectP.tasks :
          /\ ProjectP.tasks[ti].successCriteria = CriteriaGiven
          /\ ProjectP.tasks[ti].status = "pending"
    /\ \E ti \in DOMAIN ProjectP.tasks :
          /\ ProjectP.tasks[ti].successCriteria = CriteriaGiven
          /\ ProjectP.tasks[ti].status = "done"

\* C4: a successful update-task on a subtask that leaves every subtask of the
\* parent done leaves the parent in review when it was neither review nor done,
\* and as it was otherwise; no update of a subtask makes a parent done that was
\* not done.
C4_ParentGoesToReviewNotDone ==
    HasP =>
        \A ti \in DOMAIN ProjectP.tasks, status \in AllStatuses, notes \in AllNotes :
            \A si \in DOMAIN ProjectP.tasks[ti].subtasks :
                LET task == ProjectP.tasks[ti]
                    r == UpdateTaskExec(projects, activeProject, NameP,
                                        <<task.id, task.subtasks[si].id>>, status,
                                        notes, clock)
                    q == r.store[KeyP].tasks[ti]
                IN r.ok =>
                     /\ (\A k \in DOMAIN q.subtasks : q.subtasks[k].status = "done")
                           => q.status = IF task.status \in {"review", "done"}
                                         THEN task.status ELSE "review"
                     /\ q.status = "done" => task.status = "done"

\* C4 witness: the second of two subtasks was just marked done and the parent
\* went to review.
C4_Witness ==
    /\ HasP
    /\ last.tool = "update-task" /\ last.ok
    /\ last.meta = <<"subtask", "autoUpdates">>
    /\ \E ti \in DOMAIN ProjectP.tasks :
          /\ Len(ProjectP.tasks[ti].subtasks) = 2
          /\ \A k \in 1..2 : ProjectP.tasks[ti].subtasks[k].status = "done"
          /\ ProjectP.tasks[ti].status = "review"

-----------------------------------------------------------------------------
\* Session isolation of the store.

\* the entries of the store written by another session under the namespace
ForeignEntries(st, sessionId, namespace) ==
    {e \in UNION {{<<m, j>> : j \in DOMAIN st[m]} : m \in DOMAIN st} :
        /\ st[e[1]][e[2]].value.ns = namespace
        /\ st[e[1]][e[2]].value.by # sessionId}

\* The call shows no value and touches no entry of another session's under the
\* namespace it names
Isolated(st, sessionId, a, now) ==
    LET r == MemoryStoreExec(st, sessionId, a, now)
    IN /\ \A v \in r.values : v.ns = a.namespace => v.by = sessionId
       /\ \A e \in ForeignEntries(st, sessionId, a.namespace) :
             /\ e[1] \in DOMAIN r.st
             /\ e[2] \in DOMAIN r.st[e[1]]
             /\ r.st[e[1]][e[2]] = st[e[1]][e[2]]

\* C7: whatever the two sessions did before, no store operation a session issues
\* under a namespace n returns a value the other session wrote under n, and none,
\* delete and clear included, removes or changes an entry the other session wrote
\* under n.
C7_SessionIsolation ==
    \A sessionId \in Sessions, namespace \in Namespaces :
        /\ \A key \in StoreKeys :
              /\ Isolated(stores, sessionId,
                          StoreArgs("set", namespace, key,
                                    ValueOf(sessionId, namespace), <<>>), clock)
              /\ \A operation \in {"get", "delete"} :
                    Isolated(stores, sessionId,
                             StoreArgs(operation, namespace, key, <<>>, <<>>), clock)
        /\ \A pattern \in Patterns :
              Isolated(stores, sessionId,
                       StoreArgs("query", namespace, <<>>, <<>>, pattern), clock)
        /\ \A operation \in {"list", "clear", "export"} :
              Isolated(stores, sessionId,
                       StoreArgs(operation, namespace, <<>>, <<>>, <<>>), clock)
        /\ Isolated(stores, sessionId,
                    StoreArgs("import", namespace, <<>>,
                              <<ImportData(sessionId, namespace)>>, <<>>), clock)

\* C7 witness: both sessions hold a value under namespace c and key k, and the
\* list one of them just issued under c showed its own value only.
C7_Witness ==
    /\ storeLast.operation = "list" /\ storeLast.namespace = NamespaceC
    /\ storeLast.sessionId = SessionA
    /\ storeLast.values = {ValueOf(SessionA, NamespaceC)}
    /\ ForeignEntries(stores, SessionA, NamespaceC) # {}
    /\ ForeignEntries(stores, SessionAB, NamespaceC) # {}

-----------------------------------------------------------------------------
\* Sessions of SSE connections.

\* C8: every tools/call that reaches the server over an SSE connection is executed
\* with the session id of that connection, and shows only values written by calls
\* of that connection.
C8_CallsRunUnderOwnConnection ==
    callLog.status = 200 =>
        /\ callLog.sessionId = callLog.conn
        /\ \A v \in callLog.values : v.by = callLog.conn

-----------------------------------------------------------------------------
\* Export and import.

\* the project with the two fields an import rewrites left out of the comparison
SameButNameAndUpdated(a, b) ==
    [a EXCEPT !.name = <<>>, !.updated = 0] = [b EXCEPT !.name = <<>>, !.updated = 0]

\* C9: exporting a stored project to a .json file and importing the file under a
\* name no project of the session has succeeds; the imported project equals the
\* exported one but for name and updated, and the active pointer names it.
C9_ExportImportRoundTrip ==
    \A k \in DOMAIN projects, name \in {NameP, NameQ} :
        normalizeProjectKey(name) \notin DOMAIN projects =>
            LET e == ImportExportExec(projects, activeProject, files, "export",
                                      projects[k].name, PathF, clock)
                i == ImportExportExec(e.store, e.active, e.files, "import", name,
                                      PathF, clock)
            IN /\ e.ok
               /\ i.ok
               /\ SameButNameAndUpdated(i.store[normalizeProjectKey(name)],
                                        projects[k])
               /\ i.store[normalizeProjectKey(name)].name = name
               /\ i.store[normalizeProjectKey(name)].updated = clock
               /\ i.active = <<name>>

-----------------------------------------------------------------------------
\* Task ids.

\* The ids handed out in the project a call addressed, before the call
EverIssued(projectKey) ==
    IF projectKey \in DOMAIN issued THEN issued[projectKey].ever ELSE {}

IssuedThisRun(projectKey) ==
    IF projectKey \in DOMAIN issued THEN issued[projectKey].run ELSE {}

DistinctIds(tasks) ==
    \A i \in DOMAIN tasks : \A j \in DOMAIN tasks : i # j => tasks[i].id # tasks[j].id

Overwrote(call) == "overwritten" \in Range(call.meta)

\* C11 as stated: whatever the calls on a project (import-folder with overwrite
\* included), the main-task ids of the project are pairwise distinct and every
\* call that creates main tasks gives them ids greater than every id handed out
\* in the project before, so that no id is handed out twice.
C11_IdsNeverIssuedTwice ==
    /\ [](\A k \in DOMAIN projects : DistinctIds(projects[k].tasks))
    /\ [][projects' # projects =>
             \A id \in last'.created : \A earlier \in EverIssued(last'.key) :
                id > earlier]_vars

\* C11, amended: the main-task ids of a project are pairwise distinct and lie
\* below nextId; a call other than an import-folder that overwrites gives the main
\* tasks it creates ids greater than every id handed out since the project was
\* created or last overwritten; an import-folder that overwrites starts again
\* at 1 and hands out 1..n.
C11_IdsIncreaseUntilOverwritten ==
    /\ [](\A k \in DOMAIN projects :
            /\ DistinctIds(projects[k].tasks)
            /\ \A i \in DOMAIN projects[k].tasks :
                  projects[k].tasks[i].id < projects[k].nextId)
    /\ [][projects' # projects =>
             IF Overwrote(last')
             THEN last'.created = 1..Cardinality(last'.created)
             ELSE \A id \in last'.created :
                     \A earlier \in IssuedThisRun(last'.key) : id > earlier]_vars

\* a batch has added tasks 2 and 3 to a project that held task 1
C11_Witness ==
    /\ last.tool = "batch-add-tasks" /\ last.ok /\ last.created = {2, 3}
    /\ IssuedThisRun(last.key) = {1, 2, 3}

-----------------------------------------------------------------------------
\* The ready set and the recommendation.

ReadyIds(project) ==
    {getReadyTasks(project)[i].id : i \in DOMAIN getReadyTasks(project)}

\* C12: a task that is not final and whose every dependency is done or cancelled
\* is unblocked everywhere: it is in the ready set, next-task has a recommendation
\* when it is pending, and it is not listed as waiting, just as update-task's done
\* gate finds no incomplete dependency.
C12_FinalDependenciesUnblock ==
    HasP =>
        \A i \in DOMAIN ProjectP.tasks :
            LET task == ProjectP.tasks[i]
            IN (~FinalStatus(task.status) /\ ~NonFinalDependency(ProjectP, task)) =>
                  /\ incompleteDeps(ProjectP, task) = {}
                  /\ task.id \in ReadyIds(ProjectP)
                  /\ (task.status = "pending" => getNextTask(ProjectP) # <<>>)
                  /\ i \notin DOMAIN blockedTasks(ProjectP)

\* The project with the dependency list of its i-th task replaced
WithDependencies(project, i, deps) == [project EXCEPT !.tasks[i].dependencies = deps]

\* dependency lists of up to two ids, one of them the id of no task
ReadyDepLists == UNION {[1..n -> 1..(MaxTasks + 1)] : n \in 0..2}

\* the main tasks neither done nor cancelled whose every dependency id is the id
\* of a done task
ExpectedReady(project) ==
    {project.tasks[i].id : i \in {j \in DOMAIN project.tasks :
        /\ project.tasks[j].status \notin {"done", "cancelled"}
        /\ \A k \in DOMAIN project.tasks[j].dependencies :
              \E d \in DOMAIN project.tasks :
                 /\ project.tasks[d].id = project.tasks[j].dependencies[k]
                 /\ project.tasks[d].status = "done"}}

\* C13: getReadyTasks returns exactly the main tasks that are neither done nor
\* cancelled and whose every dependency id is the id of a done task, each once and
\* in project order; a task without dependencies is included, a task with an
\* unresolved dependency id is not; next-task counts that set.
C13_ReadySetExact ==
    /\ HasP =>
          \A i \in DOMAIN ProjectP.tasks : \A deps \in ReadyDepLists :
              LET project == WithDependencies(ProjectP, i, deps)
                  readyTasks == getReadyTasks(project)
              IN /\ ReadyIds(project) = ExpectedReady(project)
                 /\ Len(readyTasks) = Cardinality(ExpectedReady(project))
                 /\ \A a \in DOMAIN readyTasks : \A b \in DOMAIN readyTasks :
                       a < b => findTaskById(project, readyTasks[a].id)
                                  < findTaskById(project, readyTasks[b].id)
                 /\ (MaxTasks + 1 \in Range(deps)
                       => project.tasks[i].id \notin ReadyIds(project))
                 /\ (deps = <<>> /\ ~FinalStatus(project.tasks[i].status)
                       => project.tasks[i].id \in ReadyIds(project))
    /\ (HasP /\ last.tool = "next-task" /\ last.ok)
          => last.report.readyTasks = ExpectedReady(ProjectP)

\* task 1 done, task 2 pending on 1, task 3 pending on 2: next-task counted {2}
C13_Witness ==
    /\ HasP /\ Len(ProjectP.tasks) = 3
    /\ ProjectP.tasks[1].status = "done"
    /\ ProjectP.tasks[2].status = "pending" /\ ProjectP.tasks[2].dependencies = <<1>>
    /\ ProjectP.tasks[3].status = "pending" /\ ProjectP.tasks[3].dependencies = <<2>>
    /\ last.tool = "next-task" /\ last.ok /\ last.report.readyTasks = {2}

\* The project with the status of its i-th task replaced
WithStatus(project, i, status) == [project EXCEPT !.tasks[i].status = status]

Rank(priority) == IF priority = "high" THEN 3 ELSE IF priority = "medium" THEN 2 ELSE 1

\* a goes before b: higher priority, or the same priority and a smaller id
GoesBefore(a, b) ==
    \/ Rank(a.priority) > Rank(b.priority)
    \/ Rank(a.priority) = Rank(b.priority) /\ a.id < b.id

\* the pending tasks of the ready set
PendingReady(project) ==
    {project.tasks[i] : i \in {j \in DOMAIN project.tasks :
        /\ project.tasks[j].id \in ExpectedReady(project)
        /\ project.tasks[j].status = "pending"}}

\* C14: getNextTask returns a task exactly when some ready task is pending; the
\* task returned is a pending ready task that no other pending ready task goes
\* before (higher priority, or equal priority and smaller id); a ready task in
\* any other status is never returned; next-task reports that task.
C14_NextTaskIsBestPendingReady ==
    /\ HasP =>
          \A i \in DOMAIN ProjectP.tasks : \A status \in VALID_STATUSES :
              LET project == WithStatus(ProjectP, i, status)
                  next == getNextTask(project)
              IN /\ (next # <<>>) <=> (PendingReady(project) # {})
                 /\ next # <<>> =>
                       /\ next[1] \in PendingReady(project)
                       /\ \A other \in PendingReady(project) :
                             ~GoesBefore(other, next[1])
                 /\ (status # "pending" /\ next # <<>>)
                       => next[1].id # project.tasks[i].id
    /\ (HasP /\ last.tool = "next-task" /\ last.ok) =>
          /\ last.report.nextTask = <<>> <=> PendingReady(ProjectP) = {}
          /\ \A t \in PendingReady(ProjectP) :
                (\A other \in PendingReady(ProjectP) : ~GoesBefore(other, t))
                   => last.report.nextTask = <<t.id>>

\* task 1 in progress, task 2 pending with low priority, task 3 pending with high
\* priority, all ready: next-task recommended task 3
C14_Witness ==
    /\ HasP /\ Len(ProjectP.tasks) = 3
    /\ ProjectP.tasks[1].status = "in-progress"
    /\ ProjectP.tasks[2].status = "pending" /\ ProjectP.tasks[2].priority = "low"
    /\ ProjectP.tasks[3].status = "pending" /\ ProjectP.tasks[3].priority = "high"
    /\ ReadyIds(ProjectP) = {1, 2, 3}
    /\ last.tool = "next-task" /\ last.ok /\ last.report.nextTask = <<3>>

-----------------------------------------------------------------------------
\* Key normalization.

MaxKeyLen == 3       \* length of the raw keys normalized

\* raw keys: dots, a lower-case and an upper-case letter, a character that is
\* removed
RawKeys == UNION {[1..n -> {".", "a", "B", " "}] : n \in 0..MaxKeyLen}

\* The store after a set of the session's value under the raw key
AfterSet(sessionId, namespace, key) ==
    MemoryStoreExec(stores, sessionId,
                    StoreArgs("set", namespace, key, ValueOf(sessionId, namespace),
                              <<>>),
                    clock).st

\* C15: normalizing an already normalized key returns it unchanged, for the
\* store's normalizeKey and the task tools' normalizeProjectKey, keys with both a
\* leading and a trailing dot included; so a set under a raw key and a set under
\* its normalized form write the same entry.
C15_NormalizationIdempotent ==
    \A key \in RawKeys :
        /\ normalizeKey(normalizeKey(key)) = normalizeKey(key)
        /\ normalizeProjectKey(normalizeProjectKey(key)) = normalizeProjectKey(key)
        /\ \A sessionId \in Sessions, namespace \in Namespaces :
              AfterSet(sessionId, namespace, key)
                 = AfterSet(sessionId, namespace, normalizeKey(key))

-----------------------------------------------------------------------------
\* Expiry.

IsoAC == IsolatedNamespace(SessionA, NamespaceC)

\* milliseconds elapsed since the entry was created
Elapsed(entry) == DateNow(clock) - DateNow(entry.created)

\* C16: an entry stored with a ttl of T ms is returned by get while less than T ms
\* have elapsed since its creation, and the store keeps it; once more than T ms
\* have elapsed, get, query, list and export do not show it, and get and a
\* matching query leave the namespace without it.
C16_TtlExpiry ==
    IsoAC \in DOMAIN stores =>
        \A key \in DOMAIN stores[IsoAC] :
            LET entry == stores[IsoAC][key]
                get == ManagerGet(stores, IsoAC, key, clock)
                query == ManagerQuery(stores, IsoAC, key, clock)
                list == ManagerList(stores, IsoAC, clock)
                export == ManagerExport(stores, IsoAC, clock)
                tool == MemoryStoreExec(stores, SessionA,
                            StoreArgs("get", NamespaceC, key, <<>>, <<>>), clock)
            IN /\ (entry.ttl # 0 /\ Elapsed(entry) < entry.ttl) =>
                      /\ get.values = {entry.value} /\ get.st = stores
                      /\ tool.ok /\ tool.values = {entry.value}
               /\ (entry.ttl # 0 /\ Elapsed(entry) > entry.ttl) =>
                      /\ get.values = {} /\ key \notin DOMAIN get.st[IsoAC]
                      /\ tool.ok /\ tool.values = {}
                      /\ key \notin DOMAIN query.results
                      /\ key \notin DOMAIN query.st[IsoAC]
                      /\ key \notin DOMAIN list.results
                      /\ key \notin DOMAIN export
               /\ entry.ttl = 0 => get.values = {entry.value}

\* key k, set with a ttl of one second at time 0, is still held at time 2 and the
\* export just made shows only key j, which was set without a ttl
C16_Witness ==
    /\ clock = 2
    /\ IsoAC \in DOMAIN stores
    /\ DOMAIN stores[IsoAC] = {KeyK, KeyJ}
    /\ stores[IsoAC][KeyK].ttl = MsPerSecond /\ stores[IsoAC][KeyK].created = 0
    /\ stores[IsoAC][KeyJ].ttl = 0
    /\ storeLast.operation = "export" /\ storeLast.ok
    /\ storeLast.values = {ValueAt(SessionA, NamespaceC, KeyJ)}

-----------------------------------------------------------------------------
\* Query patterns.

\* A pattern read as the words say: "**" is a run of any characters, "*" a run
\* of characters other than the dot, any other character is itself
RECURSIVE GlobPieces(_)
GlobPieces(pattern) ==
    IF pattern = <<>> THEN <<>>
    ELSE IF Len(pattern) >= 2 /\ pattern[1] = "*" /\ pattern[2] = "*"
    THEN <<"anyrun">> \o GlobPieces(SubSeq(pattern, 3, Len(pattern)))
    ELSE IF pattern[1] = "*" THEN <<"nodots">> \o GlobPieces(Tail(pattern))
    ELSE <<pattern[1]>> \o GlobPieces(Tail(pattern))

RECURSIVE GlobTest(_, _)
GlobTest(pieces, key) ==
    IF pieces = <<>> THEN key = <<>>
    ELSE IF pieces[1] \in {"anyrun", "nodots"}
    THEN \E n \in 0..Len(key) :
            /\ (pieces[1] = "nodots" => \A i \in 1..n : key[i] # ".")
            /\ GlobTest(Tail(pieces), SubSeq(key, n + 1, Len(key)))
    ELSE key # <<>> /\ pieces[1] = key[1] /\ GlobTest(Tail(pieces), Tail(key))

\* C17: for a pattern that is neither "*" nor "**" nor the key itself, a stored
\* key matches exactly when it matches the pattern with "*" read as a run of
\* non-dot characters and "**" as a run of any characters ("a.**" matches
\* "a.b.c"); query returns exactly the matching keys that have not expired.
C17_QueryMatchesGlob ==
    IsoAC \in DOMAIN stores =>
        \A pattern \in QueryPatterns :
            LET live == DOMAIN stores[IsoAC] \ ExpiredKeys(stores[IsoAC], clock)
                query == ManagerQuery(stores, IsoAC, pattern, clock)
            IN /\ \A key \in DOMAIN stores[IsoAC] :
                     (pattern \notin {<<"*">>, <<"*", "*">>, key}) =>
                        (matchPattern(key, pattern)
                            <=> GlobTest(GlobPieces(pattern), key))
               /\ DOMAIN query.results =
                     {key \in live :
                         \/ pattern \in {<<"*">>, <<"*", "*">>, key}
                         \/ GlobTest(GlobPieces(pattern), key)}

-----------------------------------------------------------------------------
\* Calls in flight together.

\* the successful calls among those returned
Successes == {i \in DOMAIN race.returned : race.returned[i].ok}

\* C18: as long as every add-task call was awaited before the next was issued, no
\* successful change is lost: the task each successful call reported is in the
\* stored project and no two calls reported the same id.  (That calls in flight
\* together do lose a change is the state C18_Witness describes.)
C18_AwaitedCallsLoseNothing ==
    ~race.overlapped =>
        /\ \A i \in Successes :
              /\ race.returned[i].created # {}
              /\ race.returned[i].created \subseteq StoredIds(projects, KeyP)
        /\ \A i \in Successes : \A j \in Successes :
              i # j => race.returned[i].created \cap race.returned[j].created = {}

\* two add-task calls were in flight together, both returned success, both
\* reported id 1, and the stored project holds one task
C18_Witness ==
    /\ race.overlapped /\ race.flight = <<>>
    /\ Len(race.returned) = 2
    /\ \A i \in 1..2 : race.returned[i].ok /\ race.returned[i].created = {1}
    /\ HasP /\ Len(ProjectP.tasks) = 1 /\ ProjectP.nextId = 2

-----------------------------------------------------------------------------
\* Failed calls.

StartsWith(text, prefix) ==
    Len(text) >= Len(prefix) /\ SubSeq(text, 1, Len(prefix)) = prefix

\* C19: every failed tools/call, whether the tool returned a failed result or
\* raised, is answered with a result that has isError set and a text made of
\* "Error: " and the message.
C19_FailedCallsAnswerErrorText ==
    (last.tool # "none" /\ ~last.ok) =>
        LET response == CallToolResponse(last)
        IN /\ response.answer = "result"
           /\ response.isError
           /\ response.text = <<"E", "r", "r", "o", "r", ":", " ">> \o <<last.err>>

-----------------------------------------------------------------------------
\* The tool registry.

\* C20: register of a tool whose name is registered fails and leaves the registry
\* as it was (same count, get returns the first tool); after unregister the name
\* can be registered again; has(name) is true exactly for the names registered
\* and not unregistered since: a call changes it for its own name only, to true
\* by register and to false by unregister.
C20_RegistryRejectsDuplicates ==
    /\ [](\A tool \in ToolObjects :
            LET r == RegistryRegister(registry.tools, tool)
                u == RegistryUnregister(registry.tools, tool.name)
            IN /\ RegistryHas(registry.tools, tool.name) =>
                     /\ r.threw
                     /\ r.tools = registry.tools
                     /\ RegistryCount(r.tools) = RegistryCount(registry.tools)
                     /\ RegistryGet(r.tools, tool.name)
                           = RegistryGet(registry.tools, tool.name)
               /\ ~RegistryHas(registry.tools, tool.name) =>
                     /\ ~r.threw
                     /\ RegistryGet(r.tools, tool.name) = <<tool>>
                     /\ RegistryCount(r.tools) = RegistryCount(registry.tools) + 1
               /\ ~RegistryHas(u.tools, tool.name)
               /\ ~RegistryRegister(u.tools, tool).threw
               /\ RegistryGet(RegistryRegister(u.tools, tool).tools, tool.name)
                     = <<tool>>)
    /\ [][\A name \in ToolNames :
             RegistryHas(registry'.tools, name) <=>
                IF registry'.last.name = name
                THEN registry'.last.op = "register"
                ELSE RegistryHas(registry.tools, name)]_registry

\* a second tool named a was registered while the first was held: the call threw
\* and get still returns the first
C20_Witness ==
    /\ registry.last.op = "register" /\ registry.last.threw
    /\ registry.last.tool = <<[name |-> "a", object |-> 2]>>
    /\ RegistryGet(registry.tools, "a") = <<[name |-> "a", object |-> 1]>>
    /\ RegistryCount(registry.tools) = 2

-----------------------------------------------------------------------------
\* create-project.

\* C21: create-project with a name whose normalized key holds a project (a name
\* differing in letter case only included) fails and changes neither the stored
\* projects nor the active-project pointer; with a valid name whose key is unused
\* it stores a project with no task and nextId 1 and points the active project
\* at that name.
C21_CreateProjectConflict ==
    \A name \in CreateNames :
       LET r == CreateProjectExec(projects, activeProject, name, clock)
           projectKey == normalizeProjectKey(name)
       IN /\ projectKey \in DOMAIN projects =>
                /\ ~r.ok
                /\ r.store = projects
                /\ r.active = activeProject
          /\ (validateProjectName(name) = "valid" /\ projectKey \notin DOMAIN projects) =>
                /\ r.ok
                /\ DOMAIN r.store = DOMAIN projects \cup {projectKey}
                /\ r.store[projectKey].name = name
                /\ r.store[projectKey].tasks = <<>>
                /\ r.store[projectKey].nextId = 1
                /\ \A k \in DOMAIN projects : r.store[k] = projects[k]
                /\ r.active = <<name>>

\* project P holds a task and q is the active project when create-project is
\* called with p: the call fails and both are as they were
C21_Witness ==
    /\ last.tool = "create-project" /\ last.name = NameP
    /\ ~last.ok /\ last.err = "already-exists"
    /\ HasP /\ ProjectP.name = NameUpperP /\ Len(ProjectP.tasks) = 1
    /\ activeProject = <<NameQ>>

-----------------------------------------------------------------------------
\* Subtask ids.

\* C22: after any sequence of add-task and import-folder calls the subtask ids of
\* each task are pairwise distinct, the first subtask has id 1 and each later one
\* has the id following the largest before it: the subtasks of a task are
\* numbered 1, 2, ... in the order they were attached.
C22_SubtaskIdsSequential ==
    \A k \in DOMAIN projects :
       \A t \in DOMAIN projects[k].tasks :
          LET subtasks == projects[k].tasks[t].subtasks
          IN /\ \A i, j \in DOMAIN subtasks : i # j => subtasks[i].id # subtasks[j].id
             /\ subtasks # <<>> => subtasks[1].id = 1
             /\ \A i \in DOMAIN subtasks :
                   i > 1 => subtasks[i].id
                              = Max({subtasks[j].id : j \in 1..(i - 1)}) + 1

\* a task imported with one subtask was given a second one by add-task
C22_Witness ==
    /\ last.tool = "add-task" /\ last.ok
    /\ HasP
    /\ \E t \in DOMAIN ProjectP.tasks :
          LET subtasks == ProjectP.tasks[t].subtasks
          IN /\ Len(subtasks) = 2
             /\ subtasks[1].title # TitleA
             /\ subtasks[2].title = TitleA
             /\ subtasks[2].id = 2

-----------------------------------------------------------------------------
\* import-folder: which task a subtask file is attached to.

\* The file number N a task or subtask was created from: the default title of a
\* file without one is "Task N" or "Task N-N".
FileNumber(entry) == entry.title[2]

\* The numbers N of the files task<N>.md of a listing
MainNumbers(listing) == {listing[i].n : i \in {j \in DOMAIN listing : ~listing[j].hasM}}

\* C23: in every successful import-folder, whatever file numbers the folder
\* holds, each file task<N>-<M>.md becomes a subtask of the task created from
\* task<N>.md; when task<N>.md is not in the folder the import fails.
C23_SubtasksFollowFileNumbers ==
    \A folder \in ImportFolders :
       LET r == ImportFolderExec(projects, activeProject, folder, Undefined, TRUE,
                                 TRUE, clock)
           imported == r.store[normalizeProjectKey(folder.name)]
       IN /\ r.ok =>
                \A t \in DOMAIN imported.tasks :
                   \A i \in DOMAIN imported.tasks[t].subtasks :
                      FileNumber(imported.tasks[t].subtasks[i])
                         = FileNumber(imported.tasks[t])
          /\ (\E i \in DOMAIN folder.listing :
                 /\ folder.listing[i].hasM
                 /\ folder.listing[i].n \notin MainNumbers(folder.listing)) => ~r.ok

-----------------------------------------------------------------------------
\* Client roots.

\* C24: whenever a client advertises roots support in its initialize request the
\* server afterwards sends it a roots/list request, on stdio and on SSE, in
\* every order of the initialize request, the connection and the 500 ms timer;
\* when the client does not advertise it, no roots/list request is sent (none
\* leaves the server while clientSupportsRoots is false) and the workspace of
\* the environment variable is used.
C24_RootsRequestedWhenAdvertised ==
    /\ \A c \in RootsClients : (c \in roots.advertised) ~> (c \in roots.sent)
    /\ [](/\ roots.declined \subseteq roots.env
          /\ ~roots.clientSupportsRoots =>
                \A answered \in BOOLEAN :
                   LET q == requestRootsFromClient(roots, answered).roots
                   IN q.sent = roots.sent /\ q.early = roots.early)

-----------------------------------------------------------------------------
\* The tools offered after startup.

\* C25: after startup the registry resolves the name chonky-memory-store: the
\* answer to tools/list includes it, beside the ten task-management tools, and a
\* tools/call naming it is dispatched to the store and not refused as an
\* unknown tool.
C25_MemoryStoreIsCallable ==
    Started =>
       /\ RegistryHas(registry.tools, MemoryStoreName)
       /\ MemoryStoreName \in ListTools(registry.tools)
       /\ Range(RegisteredAtStartup) \subseteq ListTools(registry.tools)
       /\ Dispatch(registry.tools, MemoryStoreName) = "execute"

-----------------------------------------------------------------------------
\* The editor adapter.

\* C26: UniversalMCPToolWrapper.invoke never lets a failure of the wrapped tool
\* pass: for every tool whose execute throws it returns a result whose text
\* contains "Error executing <toolName>", and for every tool whose execute
\* returns a text it returns a result carrying that text.
C26_InvokeNeverPropagates ==
    \A toolName \in adapter.wrappers, outcome \in Outcomes :
       LET answer == invoke(toolName, outcome)
       IN /\ ~answer.propagated
          /\ outcome.threw =>
                /\ Len(answer.text) >= 2
                /\ answer.text[1] = "Error executing "
                /\ answer.text[2] = toolName
          /\ (/\ ~outcome.threw
              /\ outcome.returned # <<>>
              /\ outcome.returned[1].result # Undefined) =>
                \/ answer.text = outcome.returned[1].result /\ answer.json = <<>>
                \/ /\ answer.json # <<>>
                   /\ answer.json[1].result = outcome.returned[1].result

\* the wrapper of add-task was invoked and the tool threw "Tool error"
C26_Witness ==
    /\ adapter.last.toolName = "chonky-task-manager-add-task"
    /\ adapter.last.outcome = <<Thrown(TRUE, "Tool error")>>
    /\ ~adapter.last.answer[1].propagated
    /\ adapter.last.answer[1].text
          = <<"Error executing ", "chonky-task-manager-add-task", ": ", "Tool error">>

-----------------------------------------------------------------------------
\* update-task on a subtask.

\* The subtasks of project p that exist, as <<ti, si>> positions
SubtaskPositions ==
    IF ~HasP THEN {}
    ELSE UNION {{<<ti, si>> : si \in DOMAIN ProjectP.tasks[ti].subtasks} :
                  ti \in DOMAIN ProjectP.tasks}

\* The task id "n.m" of the subtask at a position
RefOf(pos) ==
    <<ProjectP.tasks[pos[1]].id, ProjectP.tasks[pos[1]].subtasks[pos[2]].id>>

\* Some dependency id of the subtask is the id of a sibling, another subtask of
\* the same parent, whose status is not final
SiblingDependencyOpen(pos) ==
    LET task == ProjectP.tasks[pos[1]]
        subtask == task.subtasks[pos[2]]
    IN \E k \in DOMAIN subtask.dependencies, j \in DOMAIN task.subtasks :
          /\ j # pos[2]
          /\ task.subtasks[j].id = subtask.dependencies[k]
          /\ task.subtasks[j].status \notin FINAL_STATUSES

\* C27: update-task with status done and a note, on a subtask that is not done,
\* is rejected without mutation exactly when some dependency id of the subtask
\* is the id of a sibling subtask whose status is not final; main tasks, the
\* parent's dependencies and the other subtasks play no part.
C27_SubtaskDoneGate ==
    \A pos \in SubtaskPositions :
       LET r == UpdateTaskExec(projects, activeProject, NameP, RefOf(pos), "done",
                               NoteWip, clock)
       IN ProjectP.tasks[pos[1]].subtasks[pos[2]].status # "done" =>
             /\ ~r.ok => r.store = projects
             /\ ~r.ok <=> SiblingDependencyOpen(pos)

\* The parent's status the inference rules give, from its status before and
\* the statuses of its subtasks after the update
InferredStatus(before, subtasks) ==
    LET some(status) == \E i \in DOMAIN subtasks : subtasks[i].status = status
    IN IF \A i \in DOMAIN subtasks : subtasks[i].status = "done"
       THEN IF before \in {"review", "done"} THEN before ELSE "review"
       ELSE IF some("blocked") /\ before # "blocked" THEN "blocked"
       ELSE IF some("in-progress") /\ before = "pending" THEN "in-progress"
       ELSE before

\* C28: after a subtask update the parent's status follows at most one rule, in
\* this order: every subtask done gives review unless the parent is review or
\* done, and nothing else is looked at; otherwise a blocked subtask gives
\* blocked unless the parent is blocked; otherwise an in-progress subtask
\* gives in-progress when the parent is pending; otherwise nothing changes.
C28_ParentStatusInference ==
    \A pos \in SubtaskPositions, status \in AllStatuses :
       LET r == UpdateTaskExec(projects, activeProject, NameP, RefOf(pos), status,
                               NoteDONE, clock)
           before == ProjectP.tasks[pos[1]]
           after == r.store[KeyP].tasks[pos[1]]
       IN r.ok => after.status = InferredStatus(before.status, after.subtasks)

\* one subtask is in progress and the other was just blocked: the parent, in
\* progress before, is blocked
C28_Witness ==
    /\ last.tool = "update-task" /\ last.ok
    /\ HasP /\ Len(ProjectP.tasks) = 1
    /\ Len(ProjectP.tasks[1].subtasks) = 2
    /\ ProjectP.tasks[1].subtasks[1].status = "in-progress"
    /\ ProjectP.tasks[1].subtasks[2].status = "blocked"
    /\ ProjectP.tasks[1].subtasks[2].notes # <<>>
    /\ ProjectP.tasks[1].notes = <<>>
    /\ ProjectP.tasks[1].status = "blocked"

\* C29: a successful update-task on a subtask reports an automatic update of the
\* parent's status (autoUpdates = 1 in its metadata) exactly when the parent's
\* status after the call differs from its status before the call.
C29_AutoUpdateReportedWhenParentChanged ==
    \A pos \in SubtaskPositions, status \in AllStatuses :
       LET r == UpdateTaskExec(projects, activeProject, NameP, RefOf(pos), status,
                               NoteDONE, clock)
           before == ProjectP.tasks[pos[1]]
           after == r.store[KeyP].tasks[pos[1]]
       IN r.ok => ("autoUpdates" \in Range(r.meta) <=> after.status # before.status)

-----------------------------------------------------------------------------
\* The notes of a task or subtask.

\* The task or subtask of project p a task id addresses in a store, <<>> when
\* there is none
EntityAt(store, taskId) ==
    IF KeyP \notin DOMAIN store THEN <<>>
    ELSE LET project == store[KeyP]
             ti == findTaskById(project, taskId[1])
         IN IF ti = 0 THEN <<>>
            ELSE IF Len(taskId) = 1 THEN <<project.tasks[ti]>>
            ELSE IF FindSubtask(project.tasks[ti], taskId[2]) = 0 THEN <<>>
            ELSE <<project.tasks[ti].subtasks[FindSubtask(project.tasks[ti],
                                                          taskId[2])]>>

\* C30: every successful update-task appends exactly one entry to the notes of
\* the task or subtask addressed and leaves the earlier entries as they were,
\* before it; the entry carries the old and the new status exactly when the
\* call changed the status; a call with missing or empty notes raises
\* InvalidInput and changes nothing, with or without a status.
C30_NotesAreAppended ==
    \A taskId \in TaskRefs, status \in AllStatuses, notes \in AllNotes :
       LET r == UpdateTaskExec(projects, activeProject, NameP, taskId, status,
                               notes, clock)
           before == EntityAt(projects, taskId)
           after == EntityAt(r.store, taskId)
       IN /\ notes = <<>> =>
                ~r.ok /\ r.err = "invalid-input" /\ r.store = projects
          /\ r.ok =>
                /\ before # <<>> /\ after # <<>>
                /\ Len(after[1].notes) = Len(before[1].notes) + 1
                /\ SubSeq(after[1].notes, 1, Len(before[1].notes)) = before[1].notes
                /\ LET entry == after[1].notes[Len(after[1].notes)]
                   IN /\ entry.text = notes
                      /\ entry.change # <<>> <=> after[1].status # before[1].status
                      /\ entry.change # <<>> =>
                            entry.change = <<before[1].status, after[1].status>>

\* subtask 1.1 carries one entry, written by the call that blocked it
C30_Witness ==
    /\ last.tool = "update-task" /\ last.ok
    /\ EntityAt(projects, <<1, 1>>) # <<>>
    /\ Len(EntityAt(projects, <<1, 1>>)[1].notes) = 1
    /\ EntityAt(projects, <<1, 1>>)[1].notes[1].change = <<"pending", "blocked">>
    /\ EntityAt(projects, <<1, 1>>)[1].notes[1].text = NoteDONE

-----------------------------------------------------------------------------
\* Done tasks in the stored project.

\* C31: in every reachable project state every main task whose status is done
\* has all of its dependencies and all of its own subtasks in a final status,
\* whatever update-task, add-task and manage-dependencies calls came after it
\* was marked done.
C31_DoneTasksStayComplete ==
    HasP =>
        \A ti \in DOMAIN ProjectP.tasks :
            ProjectP.tasks[ti].status = "done" =>
                /\ ~NonFinalDependency(ProjectP, ProjectP.tasks[ti])
                /\ ~NonFinalSubtask(ProjectP.tasks[ti])

-----------------------------------------------------------------------------
\* import-folder calls that fail.

\* A folder whose only task file cannot be parsed
UnreadableFolder ==
    Folder(TRUE, <<[File(1, 0, FALSE, <<>>) EXCEPT !.readable = FALSE]>>)

\* C32: an import-folder that fails, for whatever reason (invalid project name,
\* existing project without overwrite, missing project with createProject
\* false, no task files, a file that cannot be parsed, a subtask file without
\* its parent, failed dependency validation), leaves the stored projects and the
\* active-project pointer exactly as they were, also when overwrite is true.
C32_FailedImportFolderChangesNothing ==
    \A folder \in Folders \cup {UnreadableFolder},
       projectName \in {Undefined, NameBad, NameQ},
       createProject \in BOOLEAN, overwrite \in BOOLEAN :
       LET r == ImportFolderExec(projects, activeProject, folder, projectName,
                                 createProject, overwrite, clock)
       IN ~r.ok => r.store = projects /\ r.active = activeProject

\* an import with overwrite true onto the stored project, which has a task, was
\* refused by the dependency validation
C32_Witness ==
    /\ HasP /\ Len(ProjectP.tasks) > 0
    /\ last.tool = "import-folder" /\ ~last.ok
    /\ last.err = "dependency-validation"

-----------------------------------------------------------------------------
\* import-folder and the order of the directory listing.

TitleB == <<"B">>

\* task1.md, task2.md, and task1-1.md, task1-2.md with a title of their own
OrderFiles ==
    {File(1, 0, FALSE, <<>>), File(2, 0, FALSE, <<>>),
     [File(1, 1, TRUE, <<>>) EXCEPT !.title = TitleA],
     [File(1, 2, TRUE, <<>>) EXCEPT !.title = TitleB]}

\* every order in which readdir can list some of these files
OrderListings ==
    UNION {{l \in [1..k -> OrderFiles] : \A i, j \in 1..k : i # j => l[i] # l[j]} :
             k \in 1..MaxFiles}

\* C33: the result of import-folder does not depend on the order in which the
\* directory listing returns the files: two listings of the same files give the
\* same answer and the same stored project, in which the subtasks of a parent
\* are numbered in ascending order of the M of their files.
C33_ImportIgnoresListingOrder ==
    \A l1 \in OrderListings, l2 \in OrderListings, overwrite \in BOOLEAN :
       LET r1 == ImportFolderExec(projects, activeProject, Folder(TRUE, l1),
                                  Undefined, TRUE, overwrite, clock)
           r2 == ImportFolderExec(projects, activeProject, Folder(TRUE, l2),
                                  Undefined, TRUE, overwrite, clock)
       IN Range(l1) = Range(l2) =>
             /\ r1.ok = r2.ok /\ r1.err = r2.err
             /\ r1.store = r2.store /\ r1.active = r2.active

-----------------------------------------------------------------------------
\* Dependencies inside a batch.

\* the dependency ids item i of a batch may name: the ids of the project's tasks
\* and the ids given to the items before it
EarlierIds(project, i) ==
    IdsOf(project.tasks) \cup {project.nextId + (j - 1) : j \in 1..(i - 1)}

\* C34: batch-add-tasks accepts a dependency id of the item at position i only
\* if it is the id of a task of the project or the id given to an item before i
\* in the batch; a dependency on the item itself or on a later item makes the
\* whole batch fail with nothing persisted.
C34_BatchDependenciesPointBack ==
    HasP =>
        \A items \in Batches :
            LET r == BatchAddTasksExec(projects, activeProject, NameP, items, clock)
                forward == \E i \in DOMAIN items : \E k \in DOMAIN items[i].deps :
                               items[i].deps[k] \notin EarlierIds(ProjectP, i)
            IN forward => ~r.ok /\ r.store = projects

-----------------------------------------------------------------------------
\* add-task with a parent.

\* C35: a successful add-task with parentTaskId adds exactly one subtask to that
\* parent and leaves the project's main tasks and its nextId counter as they
\* were, so that the next main task gets the id it would have got without the
\* subtask.
C35_SubtaskTakesNoMainTaskId ==
    HasP =>
        \A deps \in DepLists, parentTaskId \in 1..MaxTasks :
            LET r == AddTaskExec(projects, activeProject, NameP, TitleA, Undefined,
                                 "medium", deps, parentTaskId, clock)
                pi == findTaskById(ProjectP, parentTaskId)
                after == r.store[KeyP]
            IN r.ok =>
                 /\ Len(after.tasks) = Len(ProjectP.tasks)
                 /\ \A t \in DOMAIN ProjectP.tasks :
                       /\ after.tasks[t].id = ProjectP.tasks[t].id
                       /\ Len(after.tasks[t].subtasks)
                             = Len(ProjectP.tasks[t].subtasks)
                               + (IF t = pi THEN 1 ELSE 0)
                 /\ after.nextId = ProjectP.nextId

-----------------------------------------------------------------------------
\* What update-task leaves alone.

\* two tasks are alike but for status, notes and updated time
SameButStatusNotesUpdated(a, b) ==
    a = [b EXCEPT !.status = a.status, !.notes = a.notes, !.updated = a.updated]

\* two tasks are alike but for status, updated time and subtask si, which is
\* alike but for status and notes
SameButSubtask(a, b, si) ==
    /\ a = [b EXCEPT !.status = a.status, !.updated = a.updated,
                     !.subtasks = a.subtasks]
    /\ Len(a.subtasks) = Len(b.subtasks)
    /\ \A s \in DOMAIN b.subtasks :
          IF s = si
          THEN a.subtasks[s] = [b.subtasks[s] EXCEPT !.status = a.subtasks[s].status,
                                                     !.notes = a.subtasks[s].notes]
          ELSE a.subtasks[s] = b.subtasks[s]

\* C36: a successful update-task on main task T changes only T's status, notes
\* and updated time; on subtask S of parent P only S's status and notes and P's
\* status and updated time; every other task and subtask, all dependency lists,
\* titles and priorities, the order of the task list and nextId stay as they
\* were, and a failed update-task changes nothing.
C36_UpdateTaskFrame ==
    \A taskId \in TaskRefs, status \in AllStatuses, notes \in AllNotes :
       LET r == UpdateTaskExec(projects, activeProject, NameP, taskId, status,
                               notes, clock)
       IN /\ r.active = activeProject
          /\ ~r.ok => r.store = projects
          /\ r.ok =>
               LET before == ProjectP
                   after == r.store[KeyP]
                   ti == findTaskById(before, taskId[1])
               IN /\ DOMAIN r.store = DOMAIN projects
                  /\ after = [before EXCEPT !.tasks = after.tasks]
                  /\ Len(after.tasks) = Len(before.tasks)
                  /\ \A t \in DOMAIN before.tasks :
                        IF t # ti THEN after.tasks[t] = before.tasks[t]
                        ELSE IF Len(taskId) = 1
                        THEN SameButStatusNotesUpdated(after.tasks[t], before.tasks[t])
                        ELSE SameButSubtask(after.tasks[t], before.tasks[t],
                                            FindSubtask(before.tasks[t], taskId[2]))

\* task 2, which depends on task 1, was updated while task 1 has a subtask
C36_Witness ==
    /\ HasP /\ Len(ProjectP.tasks) >= 2
    /\ last.tool = "update-task" /\ last.ok
    /\ ProjectP.tasks[2].dependencies = <<1>>
    /\ Len(ProjectP.tasks[2].notes) = 1
    /\ Len(ProjectP.tasks[1].subtasks) >= 1

-----------------------------------------------------------------------------
\* Expired entries the sweep has not yet removed.

\* C37: an expired entry that is still held behaves for every store operation
\* like an absent key: get, query, list and export answer as they do once the
\* sweep has removed it, and set with overwrite false on its key succeeds as it
\* does then; the sweep never removes an entry that is not expired.
C37_ExpiredIsAbsent ==
    LET swept == cleanupExpiredEntries(stores, clock)
    IN /\ \A n \in DOMAIN stores : \A k \in DOMAIN stores[n] :
             ~isExpired(stores[n][k], clock) =>
                 k \in DOMAIN swept[n] /\ swept[n][k] = stores[n][k]
       /\ \A key \in TtlKeys, pattern \in {KeyK, <<"*">>} :
             LET args(operation) ==
                     [StoreArgs(operation, NamespaceC, key,
                                ValueAt(SessionA, NamespaceC, key), pattern)
                         EXCEPT !.overwrite = FALSE]
                 held(operation) ==
                     MemoryStoreExec(stores, SessionA, args(operation), clock)
                 gone(operation) ==
                     MemoryStoreExec(swept, SessionA, args(operation), clock)
             IN \A operation \in {"get", "query", "list", "export", "set"} :
                   /\ held(operation).ok = gone(operation).ok
                   /\ held(operation).values = gone(operation).values

-----------------------------------------------------------------------------
\* The keys the namespaces hold.

\* C38: after any sequence of set, delete, clear and import every key under
\* which a namespace holds an entry is a fixed point of the key normalization,
\* so every stored entry that is not expired is returned by get when asked for
\* its own stored key, entries brought in by import included.
C38_StoredKeysAreNormalized ==
    \A n \in DOMAIN stores : \A k \in DOMAIN stores[n] :
        /\ normalizeKey(k) = k
        /\ ~isExpired(stores[n][k], clock) =>
               ManagerGet(stores, n, k, clock).values = {stores[n][k].value}

-----------------------------------------------------------------------------
\* The active-project reference.

\* the stored project of that name has n tasks
HasTasks(name, n) == Stored(name) # <<>> /\ Len(Stored(name)[1].tasks) = n

\* The session specification: every task tool is called in one session, on two
\* project names; project p gets its first task from add-task and its second
\* from batch-add-tasks.
NextActive ==
    \/ \E name \in {NameP, NameQ, NameBad} : CreateProject(name)
    \/ \E folder \in {Folder(TRUE, <<>>), Folder(TRUE, <<File(1, 0, FALSE, <<>>)>>)},
          projectName \in {Undefined, NameQ},
          createProject \in BOOLEAN, overwrite \in BOOLEAN :
          ImportFolder(folder, projectName, createProject, overwrite)
    \/ HasTasks(NameP, 0) /\ AddTask(NameP, Undefined, "medium", <<>>, 0)
    \/ HasTasks(NameP, 1) /\ BatchAddTasks(NameP, <<BatchItem(<<>>, 0)>>)
    \/ UpdateTask(NameP, <<1>>, "in-progress", NoteDONE)
    \/ ManageDependencies(NameP, 2, "add", 1)
    \/ NextTask(NameP)
    \/ ExportProject(NameP, PathF)
    \/ \E name \in {NameP, NameQ} : ImportProject(name, PathF)

SpecActive == Init /\ [][NextActive]_vars

\* the call just answered is a successful create-project, import or
\* import-folder
Activating(call) ==
    call.ok /\ call.tool \in {"create-project", "import", "import-folder"}

\* C39: after any sequence of task-tool calls in one session the active-project
\* reference, if set, is the name given to the most recent successful
\* create-project, import or import-folder call, and a project is stored under
\* that name; a failed call and any other tool leave the reference as it is.
C39_ActiveProjectFollowsCreation ==
    /\ [](activeProject # <<>> =>
             normalizeProjectKey(activeProject[1]) \in DOMAIN projects)
    /\ [][/\ Activating(last') => activeProject' = <<last'.name>>
          /\ ~Activating(last') => activeProject' = activeProject]_taskVars

\* project q was created after project p and is the active one; a call of
\* another tool on p came after it
C39_Witness ==
    /\ activeProject = <<NameQ>>
    /\ KeyP \in DOMAIN projects /\ normalizeProjectKey(NameQ) \in DOMAIN projects
    /\ last.tool = "update-task" /\ last.ok /\ last.name = NameP

====
